---- MODULE Spec2Model ----
(***************************************************************************)
(* Model of the randomized delivery engine of src/worker.js: the D1 tables *)
(* it reads and writes, sendRandomMedia (serve) with its deferred          *)
(* ctx.waitUntil statements, selectRandomMedia, the filter helpers and the *)
(* history triggers, the batch sessions (/bd, /bmv, their callbacks and     *)
(* the media collector) and the main menu's filter indicator.  Every D1    *)
(* statement is one atomic step; the awaits between statements are the     *)
(* points where other requests interleave.                                 *)
(*                                                                         *)
(* Text values that the code inspects character by character (dates,       *)
(* duration_max) are sequences of one-character strings; enumerated text   *)
(* values that are only compared for equality are plain strings.           *)
(* SQL NULL / JS null: id 0 for a media id (both are falsy in JS),         *)
(* -1 for a duration.                                                      *)
(***************************************************************************)
EXTENDS Integers, Sequences, FiniteSets, TLC

\* ---------------------------------------------------------------- bounds
MaxCalls == 2
MaxFailures == 1
MaxAdminOps == 1
MaxClock == 1
TickMs == 30000
MaxRetryFailures == 3
MaxHistAppends == 2

\* ------------------------------------------------------ program constants
ADVANCE_WINDOW_MS == 30000
MAX_ATTEMPTS == 3
HISTORY_LIMIT == 50

NoId == 0
NoDuration == -1

\* ------------------------------------------------------------ text helpers
Digits == {"0", "1", "2", "3", "4", "5", "6", "7", "8", "9"}

\* character code order of the characters the model uses (ASCII)
CharCode(c) ==
    CASE c = " " -> 32
      [] c = "-" -> 45
      [] c = "0" -> 48 [] c = "1" -> 49 [] c = "2" -> 50 [] c = "3" -> 51
      [] c = "4" -> 52 [] c = "5" -> 53 [] c = "6" -> 54 [] c = "7" -> 55
      [] c = "8" -> 56 [] c = "9" -> 57
      [] c = "x" -> 120
      [] OTHER -> 127

DigitVal(c) == CharCode(c) - 48

\* JS string comparison a > b (code unit order, a proper prefix is smaller)
RECURSIVE StrGreater(_, _)
StrGreater(a, b) ==
    IF a = <<>> THEN FALSE
    ELSE IF b = <<>> THEN TRUE
    ELSE IF CharCode(Head(a)) # CharCode(Head(b))
         THEN CharCode(Head(a)) > CharCode(Head(b))
         ELSE StrGreater(Tail(a), Tail(b))

\* String.prototype.trim
RECURSIVE TrimLeft(_)
TrimLeft(s) == IF s # <<>> /\ Head(s) = " " THEN TrimLeft(Tail(s)) ELSE s

\* a trim that cuts the last character without looking at it
DropLast(s) == IF s # <<>> THEN SubSeq(s, 1, Len(s) - 1) ELSE s

RECURSIVE TrimRight(_)
TrimRight(s) ==
    IF s # <<>> /\ s[Len(s)] = " " THEN TrimRight(SubSeq(s, 1, Len(s) - 1)) ELSE s

Trim(s) == TrimRight(TrimLeft(s))

\* parseInt(s, 10) of a string of decimal digits
RECURSIVE ParseInt(_)
ParseInt(s) ==
    IF s = <<>> THEN 0
    ELSE 10 * ParseInt(SubSeq(s, 1, Len(s) - 1)) + DigitVal(s[Len(s)])

\* FILTER_DATE_RE: /^\d{4}-(0[1-9]|1[0-2])-(0[1-9]|[12]\d|3[01])$/
FILTER_DATE_RE(s) ==
    /\ Len(s) = 10
    /\ \A i \in {1, 2, 3, 4} : s[i] \in Digits
    /\ s[5] = "-"
    /\ \/ s[6] = "0" /\ s[7] \in Digits \ {"0"}
       \/ s[6] = "1" /\ s[7] \in {"0", "1", "2"}
    /\ s[8] = "-"
    /\ \/ s[9] = "0" /\ s[10] \in Digits \ {"0"}
       \/ s[9] \in {"1", "2"} /\ s[10] \in Digits
       \/ s[9] = "3" /\ s[10] \in {"0", "1"}

\* a duration test that accepts every text
DURATION_ANY(s) == TRUE

\* /^(0|[1-9]\d*)$/
DURATION_RE(s) ==
    /\ s # <<>>
    /\ \A i \in 1..Len(s) : s[i] \in Digits
    /\ s[1] = "0" => Len(s) = 1

\* ------------------------------------------------------------------ filters
FILTER_KEYS ==
    {"media_type", "date_mode", "date_from", "date_to", "duration_mode", "duration_max"}

FILTER_DEFAULTS ==
    [media_type |-> "all", date_mode |-> "all", date_from |-> <<>>, date_to |-> <<>>,
     duration_mode |-> "all", duration_max |-> <<>>]

FILTER_MEDIA_TYPES == {"all", "photo", "video", "animation"}
FILTER_DATE_MODES == {"all", "today", "d7", "d30", "year", "custom"}
FILTER_DURATION_MODES == {"all", "s30", "s60", "s120", "s300", "custom"}

FILTER_DURATION_PRESET_MAP(mode) ==
    CASE mode = "s30" -> 30
      [] mode = "s60" -> 60
      [] mode = "s120" -> 120
      [] mode = "s300" -> 300

\* line 2193: a custom date mode without both bounds, or with unordered bounds
CustomDateAlwaysFine(dm, df, dt) == FALSE

BadCustomDate(dm, df, dt) ==
    dm = "custom" /\ (df = <<>> \/ dt = <<>> \/ StrGreater(df, dt))

\* normalizeFilters(raw): raw is a function from some of the FILTER_KEYS to values
normalizeFilters(raw) ==
    LET merged == [k \in FILTER_KEYS |->
                     IF k \in DOMAIN raw THEN raw[k] ELSE FILTER_DEFAULTS[k]]
        mt == IF merged.media_type \in FILTER_MEDIA_TYPES
              THEN merged.media_type ELSE FILTER_DEFAULTS.media_type
        dm == IF merged.date_mode \in FILTER_DATE_MODES
              THEN merged.date_mode ELSE FILTER_DEFAULTS.date_mode
        um == IF merged.duration_mode \in FILTER_DURATION_MODES
              THEN merged.duration_mode ELSE FILTER_DEFAULTS.duration_mode
        df == IF FILTER_DATE_RE(merged.date_from) THEN merged.date_from ELSE <<>>
        dt == IF FILTER_DATE_RE(merged.date_to) THEN merged.date_to ELSE <<>>
        maxVal == Trim(merged.duration_max)
        dx == IF DURATION_RE(maxVal) THEN maxVal ELSE <<>>
        badDate == BadCustomDate(dm, df, dt)
    IN  [media_type |-> mt,
         date_mode |-> IF badDate THEN "all" ELSE dm,
         date_from |-> IF badDate THEN <<>> ELSE df,
         date_to |-> IF badDate THEN <<>> ELSE dt,
         duration_mode |-> IF um = "custom" /\ dx = <<>> THEN "all" ELSE um,
         duration_max |-> dx]

FilterAlwaysActive(filters) == TRUE

isFilterActive(filters) ==
    LET f == normalizeFilters(filters)
    IN  f.media_type # "all" \/ f.date_mode # "all" \/ f.duration_mode # "all"

\* dates the model uses; each is a calendar date, so SQLite's date(x) = x
D_2025_12_31 == <<"2", "0", "2", "5", "-", "1", "2", "-", "3", "1">>
D_2026_03_01 == <<"2", "0", "2", "6", "-", "0", "3", "-", "0", "1">>
D_2026_03_10 == <<"2", "0", "2", "6", "-", "0", "3", "-", "1", "0">>
\* date('now'), and the dates of datetime('now', '-7 days') / ('now', '-30 days');
\* the model's clock covers less than a day, and rows are stamped at 00:00:00
TODAY == D_2026_03_10
NOW_MINUS_7 == <<"2", "0", "2", "6", "-", "0", "3", "-", "0", "3">>
NOW_MINUS_30 == <<"2", "0", "2", "6", "-", "0", "2", "-", "0", "8">>

\* the duration ceiling of buildFilterWhereClause: -1 when no clause is emitted
NoCeiling(f) == NoDuration

DurationMax(f) ==
    IF f.duration_mode = "custom"
    THEN (IF f.duration_max = <<>> THEN NoDuration ELSE ParseInt(f.duration_max))
    ELSE IF f.duration_mode \in {"s30", "s60", "s120", "s300"}
         THEN FILTER_DURATION_PRESET_MAP(f.duration_mode)
         ELSE NoDuration

\* buildFilterWhereClause(filters, 'm') evaluated on the row m
buildFilterWhereClause(filters, m) ==
    LET f == normalizeFilters(filters)
        durationMax == DurationMax(f)
    IN  /\ f.media_type # "all" => m.media_type = f.media_type
        /\ CASE f.date_mode = "today" -> m.added_at = TODAY
             [] f.date_mode = "d7" -> StrGreater(m.added_at, NOW_MINUS_7)
             [] f.date_mode = "d30" -> StrGreater(m.added_at, NOW_MINUS_30)
             [] f.date_mode = "year" -> SubSeq(m.added_at, 1, 4) = SubSeq(TODAY, 1, 4)
             [] f.date_mode = "custom" ->
                    /\ ~StrGreater(f.date_from, m.added_at)
                    /\ ~StrGreater(m.added_at, f.date_to)
             [] OTHER -> TRUE
        /\ durationMax >= 0 => (m.duration # NoDuration /\ m.duration <= durationMax)

FILTER_MEDIA_CYCLE(t) ==
    CASE t = "all" -> "photo"
      [] t = "photo" -> "video"
      [] t = "video" -> "animation"
      [] t = "animation" -> "all"

\* ------------------------------------------------------------------- state
Users == {1, 2}
Chats == {-1, -2}
Categories == {"a", "b"}
Procs == {1, 2}
\* the group whose members draw and whose admins act, and the member who draws;
\* group -2 and user 2 only own rows
ServedChats == {-1}
Requesters == {1}
\* the record an admin replies `/d` to
DeleteTargets == {2}

VARIABLES
    media_library,      \* rows of media_library
    config_topics,      \* rows of config_topics: [chat_id, category_name]
    served_history,     \* media ids of served_history
    last_served,        \* user_id -> [last_media_id, served_at], one row per user
    chat_settings,      \* chat_id -> [anti_repeat, strict_skip]
    user_filters,       \* <<user_id, chat_id>> -> stored filter rows (key -> value)
    user_favorites,     \* rows [user_id, media_id]
    user_history,       \* rows [id, user_id, chat_id, media_id, viewed_at]
    group_history,      \* rows [id, chat_id, media_id, viewed_at]
    hist_seq,           \* AUTOINCREMENT counters [user, group] of the history tables,
                        \* with the owner of the last insert [user_owner, group_owner]
    clock,              \* wall clock, in ticks of TickMs
    pc,                 \* position of each request slot in sendRandomMedia
    sv,                 \* the locals of each running sendRandomMedia call
    deferred,           \* statements handed to ctx.waitUntil and not yet run
    quickDecs,          \* user_id -> quick-advance decrements issued against the
                        \* user's current last_served row
    budget,             \* what the environment may still do: [calls, fails, admin,
                        \* appends] (requests, failed deliveries, admin operations,
                        \* history appends)
    batch_sessions,     \* rows of batch_sessions: [id, chat_id, user_id, mode,
                        \* collected_ids, collected_msg_ids, created_at]
    session_seq         \* AUTOINCREMENT counter of batch_sessions

vars == <<media_library, config_topics, served_history, last_served, chat_settings,
          user_filters, user_favorites, user_history, group_history, hist_seq, clock,
          pc, sv, deferred, quickDecs, budget, batch_sessions, session_seq>>

tables == <<media_library, config_topics, served_history, last_served, chat_settings,
            user_filters, user_favorites, user_history, group_history, hist_seq,
            batch_sessions, session_seq>>

NullMedia ==
    [id |-> NoId, chat_id |-> 0, category_name |-> "", media_type |-> "",
     duration |-> NoDuration, added_at |-> <<>>, view_count |-> 0]

Row(id, chat, cat, type, dur, added, views) ==
    [id |-> id, chat_id |-> chat, category_name |-> cat, media_type |-> type,
     duration |-> dur, added_at |-> added, view_count |-> views]

\* the state the runs start from: three records of group -1, one of group -2;
\* record 1 was served to user 1 in group -1 at time 0, anti-repeat on
InitLibrary ==
    { Row(1, -1, "a", "photo", NoDuration, D_2026_03_10, 1),
      Row(2, -1, "a", "video", 10, D_2026_03_01, 0),
      Row(3, -1, "b", "video", 45, D_2025_12_31, 0),
      Row(4, -2, "a", "video", 45, D_2026_03_10, 1) }

InitTopics ==
    { [chat_id |-> c, category_name |-> k] : c \in Chats, k \in Categories \cup {"output"} }

SETTING_DEFAULTS == [anti_repeat |-> "true", strict_skip |-> "false"]

IdleLocals ==
    [userId |-> 0, category |-> "", sourceChatId |-> 0, isNext |-> FALSE,
     useAntiRepeat |-> FALSE, strictSkip |-> FALSE, filters |-> FILTER_DEFAULTS,
     now |-> 0, callNo |-> 0, excludeMediaId |-> NoId, attempts |-> 0, targetId |-> NoId,
     media |-> NullMedia, errDesc |-> "", sends |-> 0, said |-> {}, outcome |-> "none",
     sessionId |-> NoId, mode |-> "", ids |-> <<>>, messageId |-> 0, cnt |-> 0,
     op |-> "", listed |-> {}]

EmptyFn == [x \in {} |-> 0]

\* INSERT ... ON CONFLICT(key) DO UPDATE on a keyed table
Upsert(f, k, v) == [x \in DOMAIN f \cup {k} |-> IF x = k THEN v ELSE f[x]]

\* the state after setup: the tables as given, user 1 was served record 1 in
\* group -1 at time 0, no request running
NoFilters == [k \in Users \X Chats |-> EmptyFn]

InitState(lib, marks, uhist, ghist, seq, bud, sessions, stored) ==
    /\ media_library = lib
    /\ config_topics = InitTopics
    /\ served_history = marks
    /\ last_served = Upsert(EmptyFn, 1, [last_media_id |-> 1, served_at |-> 0])
    /\ chat_settings = [c \in Chats |-> SETTING_DEFAULTS]
    /\ user_filters = stored
    /\ user_favorites = {}
    /\ user_history = uhist
    /\ group_history = ghist
    /\ hist_seq = seq
    /\ clock = 0
    /\ pc = [p \in Procs |-> "idle"]
    /\ sv = [p \in Procs |-> IdleLocals]
    /\ deferred = {}
    /\ quickDecs = [u \in Users |-> 0]
    /\ budget = bud
    /\ batch_sessions = sessions
    /\ session_seq = Cardinality(sessions)

\* the history rows of the one serve that happened before
InitUserHistory ==
    { [id |-> 1, user_id |-> 1, chat_id |-> -1, media_id |-> 1, viewed_at |-> 0] }
InitGroupHistory == { [id |-> 1, chat_id |-> -1, media_id |-> 1, viewed_at |-> 0] }
InitSeq == [user |-> 1, group |-> 1, user_owner |-> 1, group_owner |-> -1]

Init ==
    InitState(InitLibrary, {1}, InitUserHistory, InitGroupHistory, InitSeq,
              [calls |-> MaxCalls, fails |-> MaxFailures, admin |-> MaxAdminOps,
               appends |-> 0], {}, NoFilters)

\* ------------------------------------------------------------ SQL statements
\* a query built without the anti-repeat clause
AntiNothing(useAntiRepeat, m) == TRUE

\* AND NOT EXISTS (SELECT 1 FROM served_history sh WHERE sh.media_id = m.id)
AntiClause(useAntiRepeat, m) == useAntiRepeat => m.id \notin served_history

\* a query built without the exclusion
ExcludeNothing(excludeId, m) == TRUE

\* excludeId ? `AND m.id != ?` : ''
ExcludeClause(excludeId, m) == excludeId # NoId => m.id # excludeId

\* the id query of selectRandomMedia
SelectIds(category, sourceChatId, useAntiRepeat, excludeId, filters) ==
    { m.id : m \in { r \in media_library :
                       /\ r.category_name = category
                       /\ r.chat_id = sourceChatId
                       /\ AntiClause(useAntiRepeat, r)
                       /\ ExcludeClause(excludeId, r)
                       /\ buildFilterWhereClause(filters, r) } }

\* SELECT * FROM media_library WHERE id = ?  (.first(): the row, or null)
FetchById(id) ==
    IF \E m \in media_library : m.id = id
    THEN CHOOSE m \in media_library : m.id = id
    ELSE NullMedia

\* the rows counted by totalCheck and cleared by the exhaustion reset
PoolRows(category, sourceChatId, filters) ==
    { m \in media_library :
        /\ m.category_name = category
        /\ m.chat_id = sourceChatId
        /\ buildFilterWhereClause(filters, m) }

\* a reset that drops every marker of the scope, whatever category or filter
ResetWholeScope(marks, category, sourceChatId, filters) ==
    marks \ { m.id : m \in { r \in media_library : r.chat_id = sourceChatId } }

\* a reset that would clear no marker
ResetNothing(marks, category, sourceChatId, filters) == marks

\* DELETE FROM served_history WHERE media_id IN (SELECT m.id ... category, chat, filter)
ResetMarkers(marks, category, sourceChatId, filters) ==
    marks \ { m.id : m \in PoolRows(category, sourceChatId, filters) }

\* errDesc.includes('chat not found') || ...('bot was kicked') || ...('channel not found')
IsDestinationGone(errDesc) ==
    errDesc \in { "Bad Request: chat not found",
                  "Forbidden: bot was kicked from the supergroup chat",
                  "Bad Request: channel not found" }

\* the descriptions a failed forwardMessage / copyMessage answers with
ErrDescs ==
    { "Bad Request: chat not found",
      "Forbidden: bot was kicked from the supergroup chat",
      "Bad Request: message to copy not found" }

\* an item purge that would take the record's whole scope with it
PurgeItemWide(lib, media) == { m \in lib : m.chat_id # media.chat_id }

\* an item purge that would delete nothing
PurgeItemKeeps(lib, media) == lib

\* DELETE FROM media_library WHERE id = ?
PurgeItem(lib, media) == { m \in lib : m.id # media.id }

\* DELETE FROM media_library WHERE chat_id = ?
PurgeScope(lib, media) == { m \in lib : m.chat_id # media.chat_id }

\* DELETE FROM config_topics WHERE chat_id = ?
PurgeTopics(topics, media) == { t \in topics : t.chat_id # media.chat_id }

\* a loop without the attempts bound
LoopForever(attempts) == TRUE

\* a loop that would run one more iteration
LoopOneMore(attempts) == attempts < MAX_ATTEMPTS + 1

\* while (attempts < 3 && !foundValid)
LoopContinues(attempts) == attempts < MAX_ATTEMPTS

\* (now - last.served_at) < 30000
InAdvanceWindow(now, servedAt) == (now - servedAt) < ADVANCE_WINDOW_MS

\* a decrement without the MAX(0, ...) floor
DecrementPlain(lib, id) ==
    { IF m.id = id THEN [m EXCEPT !.view_count = m.view_count - 1] ELSE m : m \in lib }

\* UPDATE media_library SET view_count = MAX(0, view_count - 1) WHERE id = ?
DecrementView(lib, id) ==
    { IF m.id = id
      THEN [m EXCEPT !.view_count = IF m.view_count - 1 > 0 THEN m.view_count - 1 ELSE 0]
      ELSE m : m \in lib }

\* UPDATE media_library SET view_count = view_count + 1 WHERE id = ?
IncrementView(lib, id) ==
    { IF m.id = id THEN [m EXCEPT !.view_count = m.view_count + 1] ELSE m : m \in lib }

\* ---------------------------------------------------------- history triggers
MinRows(rows) == { r \in rows : \A q \in rows : r.viewed_at <= q.viewed_at }

\* the sets of n rows that ORDER BY viewed_at DESC LIMIT k can leave out: rows of
\* the smallest viewed_at, equal timestamps in the order the query plan yields them
RECURSIVE EvictSets(_, _)
EvictSets(rows, n) ==
    IF n <= 0 \/ rows = {} THEN { {} }
    ELSE UNION { { E \cup {r} : E \in EvictSets(rows \ {r}, n - 1) } : r \in MinRows(rows) }

\* a table without the trigger
TrimNothing(table, own) == { table }

\* triggers limit_user_history / limit_group_history: the tables the trigger can
\* leave after a row of the owner was inserted (own: the owner's rows)
TrimTrigger(table, own) ==
    { table \ E : E \in EvictSets(own, Cardinality(own) - HISTORY_LIMIT) }

\* INSERT INTO user_history (user_id, chat_id, media_id) plus its trigger
InsertUserHistory(table, id, userId, chatId, mediaId, at) ==
    LET new == [id |-> id, user_id |-> userId, chat_id |-> chatId,
                media_id |-> mediaId, viewed_at |-> at]
        t1 == table \cup {new}
    IN  TrimTrigger(t1, { r \in t1 : r.user_id = userId })

\* INSERT INTO group_history (chat_id, media_id) plus its trigger
InsertGroupHistory(table, id, chatId, mediaId, at) ==
    LET new == [id |-> id, chat_id |-> chatId, media_id |-> mediaId, viewed_at |-> at]
        t1 == table \cup {new}
    IN  TrimTrigger(t1, { r \in t1 : r.chat_id = chatId })

\* ------------------------------------------------- sendRandomMedia (serve)
Task(stmt, mediaId, userId, chatId, at, callNo) ==
    [stmt |-> stmt, media_id |-> mediaId, user_id |-> userId, chat_id |-> chatId,
     at |-> at, call |-> callNo]

\* ctx.waitUntil(Promise.all([...])): the statements are issued in array order on
\* the one D1 binding and complete in that order; statements of different
\* Promise.all batches and of running requests interleave freely
Batches(stmts) == { stmts }

\* the call returns: how many sends it made and what it answered stay readable
\* until the slot takes the next call
Finish(p, locals, outcome, text) ==
    /\ pc' = [pc EXCEPT ![p] = "idle"]
    /\ sv' = [sv EXCEPT ![p] =
                [IdleLocals EXCEPT !.sends = locals.sends,
                                   !.outcome = outcome,
                                   !.said = locals.said \cup text]]

\* `if (!media) { sendMessage(noMediaMsg); return; }`
NoContent(p, locals) == Finish(p, locals, "nothing", {"no content"})

\* entry: membership / output-binding refusals, settings and filter snapshot
ServeStart(p, u, c, cat, src, nxt) ==
    /\ pc[p] = "idle"
    /\ \A q \in Procs : q < p => pc[q] # "idle"
    /\ budget.calls > 0
    /\ c > 0 => c = u
    /\ c < 0 => src = c
    /\ budget' = [budget EXCEPT !.calls = @ - 1]
    /\ LET base == [IdleLocals EXCEPT !.userId = u, !.category = cat,
                                      !.sourceChatId = src, !.isNext = nxt,
                                      !.callNo = budget.calls]
           hasOutput == \E t \in config_topics :
                            t.category_name = "output" /\ t.chat_id = c
           started == [base EXCEPT
                         !.useAntiRepeat = chat_settings[src].anti_repeat = "true",
                         !.strictSkip = chat_settings[src].strict_skip = "true",
                         !.filters = normalizeFilters(user_filters[<<u, src>>]),
                         !.now = clock * TickMs]
       IN  \/ /\ c > 0
              /\ \E inGroup \in BOOLEAN :
                    IF inGroup
                    THEN /\ sv' = [sv EXCEPT ![p] = started]
                         /\ pc' = [pc EXCEPT ![p] = IF nxt THEN "last" ELSE "select"]
                    ELSE Finish(p, base, "refused", {"not a member"})
           \/ /\ c < 0
              /\ IF hasOutput
                 THEN /\ sv' = [sv EXCEPT ![p] = started]
                      /\ pc' = [pc EXCEPT ![p] = IF nxt THEN "last" ELSE "select"]
                 ELSE Finish(p, base, "refused", {"no output binding"})
    /\ UNCHANGED <<tables, clock, deferred, quickDecs>>

\* a quick advance that ignores strict_skip
UndoMarkerAlways(strictSkip, useAntiRepeat) == useAntiRepeat

\* lines 1412-1420: the marker DELETE is issued in the else branch of
\* `if (strictSkip)`, and there only `useAntiRepeat ? ... : Promise.resolve()`
UndoMarker(strictSkip, useAntiRepeat) == ~strictSkip /\ useAntiRepeat

\* `if (isNext)`: read last_served, set excludeMediaId, hand the quick-advance
\* undo statements to ctx.waitUntil
ServeReadLast(p) ==
    /\ pc[p] = "last"
    /\ LET l == sv[p]
           u == l.userId
       IN  IF u \in DOMAIN last_served
           THEN LET last == last_served[u]
                    ex == last.last_media_id
                    inWindow == InAdvanceWindow(l.now, last.served_at)
                    dec == << Task("dec_view", ex, u, l.sourceChatId, l.now, l.callNo) >>
                    del == IF UndoMarker(l.strictSkip, l.useAntiRepeat)
                           THEN << Task("del_marker", ex, u, l.sourceChatId, l.now,
                                        l.callNo) >>
                           ELSE << >>
                IN  /\ sv' = [sv EXCEPT ![p].excludeMediaId = ex]
                    /\ IF inWindow
                       THEN \E b \in Batches(dec \o del) : deferred' = deferred \cup {b}
                       ELSE deferred' = deferred
                    /\ quickDecs' = IF inWindow
                                    THEN [quickDecs EXCEPT ![u] = @ + 1]
                                    ELSE quickDecs
           ELSE UNCHANGED <<sv, deferred, quickDecs>>
    /\ pc' = [pc EXCEPT ![p] = "select"]
    /\ UNCHANGED <<tables, clock, budget>>

\* loop head and the id query of selectRandomMedia (anti-repeat as configured)
ServeSelect(p) ==
    /\ pc[p] = "select"
    /\ LET l == [sv[p] EXCEPT !.attempts = @ + 1]
           ids == SelectIds(l.category, l.sourceChatId, l.useAntiRepeat,
                            l.excludeMediaId, l.filters)
       IN  IF ids = {}
           THEN IF l.useAntiRepeat
                THEN /\ sv' = [sv EXCEPT ![p] = [l EXCEPT !.media = NullMedia,
                                                          !.targetId = NoId]]
                     /\ pc' = [pc EXCEPT ![p] = "count"]
                ELSE NoContent(p, [l EXCEPT !.media = NullMedia, !.targetId = NoId])
           ELSE \E id \in ids :
                    /\ sv' = [sv EXCEPT ![p] = [l EXCEPT !.targetId = id]]
                    /\ pc' = [pc EXCEPT ![p] = "fetch"]
    /\ UNCHANGED <<tables, clock, deferred, quickDecs, budget>>

\* the row fetch of selectRandomMedia
ServeFetch(p) ==
    /\ pc[p] = "fetch"
    /\ LET m == FetchById(sv[p].targetId)
           l == [sv[p] EXCEPT !.media = m, !.targetId = NoId]
       IN  IF m = NullMedia
           THEN IF l.useAntiRepeat
                THEN /\ sv' = [sv EXCEPT ![p] = l]
                     /\ pc' = [pc EXCEPT ![p] = "count"]
                ELSE NoContent(p, l)
           ELSE /\ sv' = [sv EXCEPT ![p] = l]
                /\ pc' = [pc EXCEPT ![p] = "deliver"]
    /\ UNCHANGED <<tables, clock, deferred, quickDecs, budget>>

\* totalCheck: count(*) of the pool ignoring anti-repeat (and excludeId)
ServeTotalCheck(p) ==
    /\ pc[p] = "count"
    /\ LET l == sv[p]
       IN  IF Cardinality(PoolRows(l.category, l.sourceChatId, l.filters)) > 0
           THEN /\ pc' = [pc EXCEPT ![p] = "reset"]
                /\ sv' = sv
           ELSE NoContent(p, l)
    /\ UNCHANGED <<tables, clock, deferred, quickDecs, budget>>

\* the exhaustion reset and its "pool exhausted" message
ServeReset(p) ==
    /\ pc[p] = "reset"
    /\ LET l == sv[p]
       IN  /\ served_history' =
                 ResetMarkers(served_history, l.category, l.sourceChatId, l.filters)
           /\ sv' = [sv EXCEPT ![p].said = @ \cup {"pool exhausted"}]
    /\ pc' = [pc EXCEPT ![p] = "reselect"]
    /\ UNCHANGED <<batch_sessions, session_seq,
                 media_library, config_topics, last_served, chat_settings,
                   user_filters, user_favorites, user_history, group_history,
                   hist_seq, clock, deferred, quickDecs, budget>>

\* the id query of the re-selection (useAntiRepeat = false)
ServeReselect(p) ==
    /\ pc[p] = "reselect"
    /\ LET l == sv[p]
           ids == SelectIds(l.category, l.sourceChatId, FALSE, l.excludeMediaId, l.filters)
       IN  IF ids = {}
           THEN NoContent(p, l)
           ELSE \E id \in ids :
                    /\ sv' = [sv EXCEPT ![p].targetId = id]
                    /\ pc' = [pc EXCEPT ![p] = "refetch"]
    /\ UNCHANGED <<tables, clock, deferred, quickDecs, budget>>

\* the row fetch of the re-selection
ServeRefetch(p) ==
    /\ pc[p] = "refetch"
    /\ LET m == FetchById(sv[p].targetId)
           l == [sv[p] EXCEPT !.media = m, !.targetId = NoId]
       IN  IF m = NullMedia
           THEN NoContent(p, l)
           ELSE /\ sv' = [sv EXCEPT ![p] = l]
                /\ pc' = [pc EXCEPT ![p] = "deliver"]
    /\ UNCHANGED <<tables, clock, deferred, quickDecs, budget>>

\* a success batch that writes the marker whatever anti_repeat says
SuccessTasksAlwaysMark(l) ==
    [i \in 1..5 |->
          Task(<<"add_marker", "upsert_last", "inc_view", "ins_uhist", "ins_ghist">>[i],
               l.media.id, l.userId, l.sourceChatId, l.now, l.callNo)]

\* the statements of the Promise.all handed to ctx.waitUntil after a delivery
SuccessTasks(l) ==
    (IF l.useAntiRepeat
     THEN << Task("add_marker", l.media.id, l.userId, l.sourceChatId, l.now, l.callNo) >>
     ELSE << >>)
    \o [i \in 1..4 |->
          Task(<<"upsert_last", "inc_view", "ins_uhist", "ins_ghist">>[i],
               l.media.id, l.userId, l.sourceChatId, l.now, l.callNo)]

\* forwardMessage / copyMessage of the selected record, answered ok or with errDesc
ServeDeliver(p) ==
    /\ pc[p] = "deliver"
    /\ LET l == [sv[p] EXCEPT !.sends = @ + 1]
       IN  \/ /\ \E b \in Batches(SuccessTasks(l)) : deferred' = deferred \cup {b}
              /\ Finish(p, l, "delivered", {})
              /\ budget' = budget
           \/ \E d \in ErrDescs :
                 /\ budget.fails > 0
                 /\ budget' = [budget EXCEPT !.fails = @ - 1]
                 /\ sv' = [sv EXCEPT ![p] = [l EXCEPT !.errDesc = d]]
                 /\ pc' = [pc EXCEPT ![p] = IF IsDestinationGone(d)
                                            THEN "purge_scope" ELSE "purge_item"]
                 /\ deferred' = deferred
    /\ UNCHANGED <<tables, clock, quickDecs>>

\* end of a failed iteration: loop again, or report that the retries are used up
LoopBack(p) ==
    IF LoopContinues(sv[p].attempts)
    THEN /\ pc' = [pc EXCEPT ![p] = "select"]
         /\ sv' = [sv EXCEPT ![p].errDesc = ""]
    ELSE Finish(p, sv[p], "exhausted", {"retries exhausted"})

\* item-level purge
ServePurgeItem(p) ==
    /\ pc[p] = "purge_item"
    /\ media_library' = PurgeItem(media_library, sv[p].media)
    /\ LoopBack(p)
    /\ UNCHANGED <<batch_sessions, session_seq,
                 config_topics, served_history, last_served, chat_settings,
                   user_filters, user_favorites, user_history, group_history,
                   hist_seq, clock, deferred, quickDecs, budget>>

\* scope-level purge, first statement
ServePurgeScope(p) ==
    /\ pc[p] = "purge_scope"
    /\ media_library' = PurgeScope(media_library, sv[p].media)
    /\ pc' = [pc EXCEPT ![p] = "purge_topics"]
    /\ UNCHANGED <<batch_sessions, session_seq,
                 config_topics, served_history, last_served, chat_settings,
                   user_filters, user_favorites, user_history, group_history,
                   hist_seq, clock, sv, deferred, quickDecs, budget>>

\* scope-level purge, second statement
ServePurgeTopics(p) ==
    /\ pc[p] = "purge_topics"
    /\ config_topics' = PurgeTopics(config_topics, sv[p].media)
    /\ LoopBack(p)
    /\ UNCHANGED <<batch_sessions, session_seq,
                 media_library, served_history, last_served, chat_settings,
                   user_filters, user_favorites, user_history, group_history,
                   hist_seq, clock, deferred, quickDecs, budget>>

\* ------------------------------------------------ ctx.waitUntil statements
\* the effect of one deferred statement
RunStatement(t) ==
    CASE t.stmt = "dec_view" ->
              /\ media_library' = DecrementView(media_library, t.media_id)
              /\ UNCHANGED <<served_history, last_served, user_history, group_history,
                   hist_seq, quickDecs>>
         [] t.stmt = "del_marker" ->
              /\ served_history' = served_history \ {t.media_id}
              /\ UNCHANGED <<media_library, last_served, user_history, group_history, hist_seq,
                   quickDecs>>
         [] t.stmt = "add_marker" ->
              /\ served_history' = served_history \cup {t.media_id}
              /\ UNCHANGED <<media_library, last_served, user_history, group_history, hist_seq,
                   quickDecs>>
         [] t.stmt = "upsert_last" ->
              /\ last_served' = Upsert(last_served, t.user_id,
                                       [last_media_id |-> t.media_id, served_at |-> t.at])
              /\ quickDecs' = [quickDecs EXCEPT ![t.user_id] = 0]
              /\ UNCHANGED <<media_library, served_history, user_history, group_history,
                   hist_seq>>
         [] t.stmt = "inc_view" ->
              /\ media_library' = IncrementView(media_library, t.media_id)
              /\ UNCHANGED <<served_history, last_served, user_history, group_history,
                   hist_seq, quickDecs>>
         [] t.stmt = "ins_uhist" ->
              /\ hist_seq' = [hist_seq EXCEPT !.user = @ + 1, !.user_owner = t.user_id]
              /\ user_history' \in InsertUserHistory(user_history, hist_seq.user + 1,
                                       t.user_id, t.chat_id, t.media_id, clock)
              /\ UNCHANGED <<media_library, served_history, last_served, group_history,
                   quickDecs>>
         [] t.stmt = "ins_ghist" ->
              /\ hist_seq' = [hist_seq EXCEPT !.group = @ + 1, !.group_owner = t.chat_id]
              /\ group_history' \in InsertGroupHistory(group_history, hist_seq.group + 1,
                                       t.chat_id, t.media_id, clock)
              /\ UNCHANGED <<media_library, served_history, last_served, user_history,
                   quickDecs>>

\* the next statement of a batch handed to ctx.waitUntil runs
RunDeferred(b) ==
    /\ b \in deferred
    /\ deferred' = (deferred \ {b}) \cup (IF Len(b) > 1 THEN {Tail(b)} ELSE {})
    /\ RunStatement(Head(b))
    /\ UNCHANGED <<batch_sessions, session_seq,
                 config_topics, chat_settings, user_filters, user_favorites, clock,
                   pc, sv, budget>>

\* ------------------------------------------------------- other operations
\* no request is being handled
Quiet == deferred = {} /\ \A p \in Procs : pc[p] = "idle"

\* time passes; a request and its waitUntil work take far less than one tick
Tick ==
    /\ clock < MaxClock
    /\ Quiet
    /\ clock' = clock + 1
    /\ UNCHANGED <<tables, pc, sv, deferred, quickDecs, budget>>

\* toggleSetting(key, ..., ['true', 'false']) for anti_repeat / strict_skip
toggleSetting(chatId, key) ==
    /\ budget.admin > 0
    /\ Quiet
    /\ budget' = [budget EXCEPT !.admin = @ - 1]
    /\ LET next == IF chat_settings[chatId][key] = "true" THEN "false" ELSE "true"
       IN  chat_settings' = [chat_settings EXCEPT ![chatId][key] = next]
    /\ UNCHANGED <<batch_sessions, session_seq,
                 media_library, config_topics, served_history, last_served,
                   user_filters, user_favorites, user_history, group_history,
                   hist_seq, clock, pc, sv, deferred, quickDecs>>

\* callback filter_media: cycle the stored media_type of (user, chat)
CycleMediaFilter(u, sc) ==
    /\ budget.admin > 0
    /\ Quiet
    /\ budget' = [budget EXCEPT !.admin = @ - 1]
    /\ LET f == normalizeFilters(user_filters[<<u, sc>>])
           nextType == FILTER_MEDIA_CYCLE(f.media_type)
       IN  user_filters' = [user_filters EXCEPT
                              ![<<u, sc>>] = Upsert(@, "media_type", nextType)]
    /\ UNCHANGED <<batch_sessions, session_seq,
                 media_library, config_topics, served_history, last_served,
                   chat_settings, user_favorites, user_history, group_history,
                   hist_seq, clock, pc, sv, deferred, quickDecs>>

\* the five cascading DELETEs of one media id (one D1.batch)
CascadeDelete(ids) ==
    /\ media_library' = { m \in media_library : m.id \notin ids }
    /\ served_history' = served_history \ ids
    /\ user_favorites' = { f \in user_favorites : f.media_id \notin ids }
    /\ user_history' = { h \in user_history : h.media_id \notin ids }
    /\ group_history' = { h \in group_history : h.media_id \notin ids }

\* reply `/d`: an admin deletes the replied-to record
DeleteSingle(id) ==
    /\ budget.admin > 0
    /\ budget' = [budget EXCEPT !.admin = @ - 1]
    /\ \E m \in media_library : m.id = id
    /\ CascadeDelete({id})
    /\ UNCHANGED <<batch_sessions, session_seq,
                 config_topics, last_served, chat_settings, user_filters, hist_seq,
                   clock, pc, sv, deferred, quickDecs>>

ServeStep(p) ==
    \/ \E u \in Requesters, c \in ServedChats \cup Requesters, cat \in Categories,
          src \in ServedChats, nxt \in BOOLEAN : ServeStart(p, u, c, cat, src, nxt)
    \/ ServeReadLast(p)
    \/ ServeSelect(p)
    \/ ServeFetch(p)
    \/ ServeTotalCheck(p)
    \/ ServeReset(p)
    \/ ServeReselect(p)
    \/ ServeRefetch(p)
    \/ ServeDeliver(p)
    \/ ServePurgeItem(p)
    \/ ServePurgeScope(p)
    \/ ServePurgeTopics(p)

Next ==
    \/ \E p \in Procs : ServeStep(p)
    \/ \E t \in deferred : RunDeferred(t)
    \/ Tick
    \/ \E c \in ServedChats, key \in {"anti_repeat", "strict_skip"} :
          toggleSetting(c, key)
    \/ \E u \in Requesters, c \in ServedChats : CycleMediaFilter(u, c)
    \/ \E id \in DeleteTargets : DeleteSingle(id)

Spec == Init /\ [][Next]_vars

\* ------------------------------------------- one request, failing deliveries
\* callback hist_del_u_<id>: DELETE FROM user_history WHERE id = ? AND user_id = ?
RemoveUserHistory(recordId, userId) ==
    /\ budget.admin > 0
    /\ budget' = [budget EXCEPT !.admin = @ - 1]
    /\ user_history' = { h \in user_history : ~(h.id = recordId /\ h.user_id = userId) }
    /\ UNCHANGED <<batch_sessions, session_seq,
                 media_library, config_topics, served_history, last_served,
                   chat_settings, user_filters, user_favorites, group_history, hist_seq,
                   clock, pc, sv, deferred, quickDecs>>

\* callback hist_del_g_<id>: DELETE FROM group_history WHERE id = ? AND chat_id = ?
RemoveGroupHistory(recordId, chatId) ==
    /\ budget.admin > 0
    /\ budget' = [budget EXCEPT !.admin = @ - 1]
    /\ group_history' = { h \in group_history : ~(h.id = recordId /\ h.chat_id = chatId) }
    /\ UNCHANGED <<batch_sessions, session_seq,
                 media_library, config_topics, served_history, last_served,
                   chat_settings, user_filters, user_favorites, user_history, hist_seq,
                   clock, pc, sv, deferred, quickDecs>>

\* the two history INSERTs of a delivery, handed to ctx.waitUntil
AppendHistory(u, c, mediaId) ==
    /\ budget.appends > 0
    /\ budget' = [budget EXCEPT !.appends = @ - 1]
    /\ \E b \in Batches(<< Task("ins_uhist", mediaId, u, c, clock * TickMs, budget.appends),
                            Task("ins_ghist", mediaId, u, c, clock * TickMs, budget.appends) >>) :
          deferred' = deferred \cup {b}
    /\ UNCHANGED <<tables, clock, pc, sv, quickDecs>>

\* a category of four records, two of them already served
RetryLibrary ==
    { Row(1, -1, "a", "photo", NoDuration, D_2026_03_10, 1),
      Row(2, -1, "a", "video", 10, D_2026_03_01, 1),
      Row(3, -1, "a", "video", 45, D_2025_12_31, 0),
      Row(4, -1, "a", "video", 45, D_2026_03_10, 0) }

InitRetry ==
    InitState(RetryLibrary, {1, 2}, InitUserHistory, InitGroupHistory, InitSeq,
              [calls |-> 1, fails |-> MaxRetryFailures, admin |-> 0, appends |-> 0],
              {}, NoFilters)

NextRetry ==
    \/ \E p \in Procs : ServeStep(p)
    \/ \E t \in deferred : RunDeferred(t)

SpecRetry == InitRetry /\ [][NextRetry]_vars

\* ==================================================================== claims
\* C1: one sendRandomMedia call makes at most three delivery attempts
C1_AtMostThreeAttempts ==
    \A p \in Procs : sv[p].sends <= 3 /\ sv[p].attempts <= 3

\* a call whose third delivery failed and that gave up
C1_Witness ==
    \E p \in Procs : sv[p].sends = 3 /\ sv[p].outcome = "exhausted"


\* the records of a scope, and of a (scope, category) pair
ScopeRows(chatId) == { m \in media_library : m.chat_id = chatId }
PairRows(category, chatId) ==
    { m \in media_library : m.category_name = category /\ m.chat_id = chatId }
Ids(rows) == { m.id : m \in rows }

\* C2: a delivery failure whose description names a vanished destination deletes
\* every record and every category binding of the failed record's scope; any other
\* failure deletes exactly the failed record and changes no other record or binding
C2_PurgeByErrorClass ==
    [][\A p \in Procs :
        LET l == sv[p]
            scope == l.media.chat_id
        IN  /\ (pc[p] = "deliver" /\ pc'[p] = "purge_scope")
                  => IsDestinationGone(sv'[p].errDesc)
            /\ (pc[p] = "deliver" /\ pc'[p] = "purge_item")
                  => (sv'[p].errDesc # "" /\ ~IsDestinationGone(sv'[p].errDesc))
            /\ (pc[p] = "purge_item" /\ pc'[p] # "purge_item")
                  => /\ media_library' = media_library \ { m \in media_library : m.id = l.media.id }
                     /\ config_topics' = config_topics
            /\ (pc[p] = "purge_scope" /\ pc'[p] # "purge_scope")
                  => /\ pc'[p] = "purge_topics"
                     /\ media_library' = media_library \ ScopeRows(scope)
            /\ (pc[p] = "purge_topics" /\ pc'[p] # "purge_topics")
                  => /\ config_topics' = { t \in config_topics : t.chat_id # scope }
                     /\ ScopeRows(scope)' = {}
    ]_vars

\* a scope-level purge has completed: group -1 lost its records and its bindings,
\* the records and bindings of group -2 are still there
C2_Witness ==
    /\ budget.fails < MaxFailures
    /\ ScopeRows(-1) = {}
    /\ ~ \E t \in config_topics : t.chat_id = -1
    /\ ScopeRows(-2) # {}
    /\ \E t \in config_topics : t.chat_id = -2

\* C3: every id in served_history is the id of an existing media_library row
C3_MarkersReferenceRecords == served_history \subseteq Ids(media_library)

\* C4: selectRandomMedia called with an excludeId never returns that record, and
\* returns none when that record is the only one matching the rest of the query
C4_ExcludedNeverReturned ==
    [][\A p \in Procs :
        LET l == sv[p]
            anti == IF pc[p] = "select" THEN l.useAntiRepeat ELSE FALSE
            others == SelectIds(l.category, l.sourceChatId, anti, NoId, l.filters)
        IN  (pc[p] \in {"select", "reselect"} /\ l.excludeMediaId # NoId) =>
              /\ pc'[p] \in {"fetch", "refetch"} => sv'[p].targetId # l.excludeMediaId
              /\ pc'[p] = "deliver" => sv'[p].media.id # l.excludeMediaId
              /\ others \subseteq {l.excludeMediaId} => pc'[p] \notin {"fetch", "refetch"}
    ]_vars /\
    [](\A p \in Procs :
          (pc[p] = "deliver" /\ sv[p].excludeMediaId # NoId)
             => sv[p].media.id # sv[p].excludeMediaId)

\* a selection has picked a record while the excluded record matched the rest of
\* the query (it is in the category and not in served_history)
C4_Witness ==
    \E p \in Procs :
        /\ pc[p] = "fetch"
        /\ sv[p].excludeMediaId # NoId
        /\ sv[p].useAntiRepeat
        /\ sv[p].excludeMediaId \in
              SelectIds(sv[p].category, sv[p].sourceChatId, TRUE, NoId, sv[p].filters)

\* C5: with anti-repeat on, the id query of selectRandomMedia never picks a record
\* that is in served_history when the query runs; only the re-selection that
\* directly follows an exhaustion reset runs without the anti-repeat clause
C5_AntiRepeatRespected ==
    [][\A p \in Procs :
        /\ (pc[p] = "select" /\ sv[p].useAntiRepeat /\ pc'[p] = "fetch")
              => sv'[p].targetId \notin served_history
        /\ (pc[p] = "fetch" /\ pc'[p] = "deliver")
              => sv'[p].media.id = sv[p].targetId
        /\ (pc'[p] = "reselect" /\ pc[p] # "reselect") => pc[p] = "reset"
        /\ (pc'[p] = "refetch" /\ pc[p] # "refetch") => pc[p] = "reselect"
    ]_vars

\* a selection under anti-repeat picked a record while another record of the
\* pair, matching the filter and not excluded, was in served_history
C5_Witness ==
    \E p \in Procs :
        /\ pc[p] = "fetch"
        /\ sv[p].useAntiRepeat
        /\ sv[p].targetId \notin served_history
        /\ \E m \in PoolRows(sv[p].category, sv[p].sourceChatId, sv[p].filters) :
              m.id \in served_history /\ m.id # sv[p].excludeMediaId

\* C6 as stated: after the exhaustion reset of a call no record of the call's
\* (scope, category) pair is in served_history, and every record of the pair
\* that was in it can be selected again under anti-repeat
C6_ResetEmptiesPair ==
    [][\A p \in Procs :
        LET l == sv[p]
            pair == Ids(PairRows(l.category, l.sourceChatId))
        IN  (pc[p] = "reset" /\ pc'[p] = "reselect") =>
              /\ pair \cap served_history' = {}
              /\ (pair \cap served_history) \subseteq
                    SelectIds(l.category, l.sourceChatId, TRUE, NoId, l.filters)'
    ]_vars

\* C6 amended: the exhaustion reset of a call removes from served_history exactly
\* the markers of the records of the pair that satisfy the call's filter (all
\* records of the pair when no filter is active); those records can be selected
\* again under anti-repeat, markers of records outside the filter stay
C6_ResetEmptiesFilteredPool ==
    [][\A p \in Procs :
        LET l == sv[p]
            pool == Ids(PoolRows(l.category, l.sourceChatId, l.filters))
            pair == Ids(PairRows(l.category, l.sourceChatId))
        IN  (pc[p] = "reset" /\ pc'[p] = "reselect") =>
              /\ pool \cap served_history' = {}
              /\ served_history' = served_history \ pool
              /\ pool \subseteq
                    SelectIds(l.category, l.sourceChatId, TRUE, NoId, l.filters)'
              /\ ~isFilterActive(l.filters) => pair \cap served_history' = {}
    ]_vars

\* a reset under an active filter has run and a record of the pair that does
\* not match the filter is still in served_history
C6_Witness ==
    \E p \in Procs :
        /\ pc[p] = "reselect"
        /\ isFilterActive(sv[p].filters)
        /\ Ids(PoolRows(sv[p].category, sv[p].sourceChatId, sv[p].filters))
              \cap served_history = {}
        /\ \E m \in PairRows(sv[p].category, sv[p].sourceChatId) :
              /\ ~buildFilterWhereClause(sv[p].filters, m)
              /\ m.id \in served_history

\* C7: no call answers both "pool exhausted" and "no content"
C7_NeverBothAnswers ==
    \A p \in Procs : ~ ({"pool exhausted", "no content"} \subseteq sv[p].said)

\* C8: between two writes of a user's last_served row at most one quick-advance
\* decrement is issued against the record that row names
C8_OneDecrementPerServedRecord ==
    \A u \in Users : quickDecs[u] <= 1

\* --------------------------------------------- history logs at their limit
\* user 1 holds 49 rows and group -1 holds 50; in both logs the two oldest rows
\* carry the same viewed_at (CURRENT_TIMESTAMP has a resolution of one second)
HistUserRows ==
    { [id |-> i, user_id |-> 1, chat_id |-> -1, media_id |-> 1,
       viewed_at |-> IF i <= 2 THEN -2 ELSE -1] : i \in 1..(HISTORY_LIMIT - 1) }
    \cup { [id |-> HISTORY_LIMIT, user_id |-> 2, chat_id |-> -1, media_id |-> 1,
            viewed_at |-> -1] }

HistGroupRows ==
    { [id |-> i, chat_id |-> -1, media_id |-> 1,
       viewed_at |-> IF i <= 2 THEN -2 ELSE -1] : i \in 1..HISTORY_LIMIT }
    \cup { [id |-> HISTORY_LIMIT + 1, chat_id |-> -2, media_id |-> 4, viewed_at |-> -1] }

InitHist ==
    InitState(InitLibrary, {1}, HistUserRows, HistGroupRows,
              [user |-> HISTORY_LIMIT, group |-> HISTORY_LIMIT + 1,
               user_owner |-> 2, group_owner |-> -2],
              [calls |-> 0, fails |-> 0, admin |-> MaxAdminOps,
               appends |-> MaxHistAppends], {}, NoFilters)

NextHist ==
    \/ \E u \in Users, c \in ServedChats : AppendHistory(u, c, 2)
    \/ \E t \in deferred : RunDeferred(t)
    \/ \E u \in Users : RemoveUserHistory(1, u)
    \/ \E c \in Chats : RemoveGroupHistory(1, c)
    \/ Tick

SpecHist == InitHist /\ [][NextHist]_vars

UserRows(u) == { h \in user_history : h.user_id = u }
GroupRows(c) == { h \in group_history : h.chat_id = c }

\* the row of a log that was inserted first
Oldest(rows) == CHOOSE r \in rows : \A q \in rows : r.id <= q.id

\* C9: user_history holds at most 50 rows per user and group_history at most 50
\* rows per chat
C9_HistoryAtMostFifty ==
    /\ \A u \in Users : Cardinality(UserRows(u)) <= 50
    /\ \A c \in Chats : Cardinality(GroupRows(c)) <= 50

\* a row was appended to a full log and the log holds 50 rows
C9_Witness ==
    /\ budget.admin = MaxAdminOps
    /\ hist_seq.group > HISTORY_LIMIT + 1
    /\ hist_seq.group_owner = -1
    /\ Cardinality(GroupRows(-1)) = 50

\* C10: an insert into a log whose owner already holds 50 rows leaves the new row
\* in the log and removes exactly one other row, the one inserted first
C10_EvictsOldest ==
    [][
        /\ (hist_seq'.user # hist_seq.user
              /\ Cardinality(UserRows(hist_seq'.user_owner)) = HISTORY_LIMIT) =>
             LET added == { h \in user_history' : h.id = hist_seq'.user }
             IN  /\ added # {}
                 /\ user_history' \ added =
                       user_history \ {Oldest(UserRows(hist_seq'.user_owner))}
        /\ (hist_seq'.group # hist_seq.group
              /\ Cardinality(GroupRows(hist_seq'.group_owner)) = HISTORY_LIMIT) =>
             LET addedG == { h \in group_history' : h.id = hist_seq'.group }
             IN  /\ addedG # {}
                 /\ group_history' \ addedG =
                       group_history \ {Oldest(GroupRows(hist_seq'.group_owner))}
    ]_vars


\* ------------------------------------------------------------ batch sessions
\* A batch_sessions row is [id, chat_id, user_id, mode, collected_ids,
\* collected_msg_ids, created_at]; the two JSON array columns are kept as the
\* sequences they encode and turned into their text where the code reads the
\* text (INSTR).  created_at is in ticks of TickMs.  prompted is a history
\* field, not a column: it records that /bd end or /bmv end has shown the
\* confirmation prompt for the row (the table keeps no trace of that).
SESSION_TTL_MS == 300000

MaxBatchOps == 3
MaxExpiries == 1
MaxIntakes == 4

BatchChats == {-1}
SessionModes == {"bd", "bmv"}
CONFLICT_MODES == {"bd", "bmv", "cleanup", "bmv_quick"}

\* the file of an incoming media message, named by the id of the
\* media_library row that carries its file_unique_id; NoId: no such row
Files == {NoId, 1, 3, 12}

DigitChar(d) == CHOOSE c \in Digits : DigitVal(c) = d

\* `${dbMedia.id}`: the decimal text of a positive integer
RECURSIVE ToDecimal(_)
ToDecimal(n) ==
    IF n < 10 THEN <<DigitChar(n)>> ELSE ToDecimal(n \div 10) \o <<DigitChar(n % 10)>>

RECURSIVE JsonElements(_)
JsonElements(ids) ==
    IF ids = <<>> THEN <<>>
    ELSE IF Len(ids) = 1 THEN ToDecimal(ids[1])
    ELSE ToDecimal(Head(ids)) \o <<",">> \o JsonElements(Tail(ids))

\* the text of a JSON array of integers as SQLite's json_insert leaves it
JsonArrayText(ids) == <<"[">> \o JsonElements(ids) \o <<"]">>

\* SQLite INSTR(hay, needle): 1-based position of the first occurrence, 0 if none
InstrNever(hay, needle) == 0

INSTR(hay, needle) ==
    LET hits == { i \in 1..(Len(hay) - Len(needle) + 1) :
                    SubSeq(hay, i, i + Len(needle) - 1) = needle }
    IN  IF hits = {} THEN 0 ELSE CHOOSE i \in hits : \A j \in hits : i <= j

SessionRow(id, chat, user, mode, at) ==
    [id |-> id, chat_id |-> chat, user_id |-> user, mode |-> mode,
     collected_ids |-> <<>>, collected_msg_ids |-> <<>>, created_at |-> at,
     prompted |-> FALSE]

\* `Date.now() - new Date(session.created_at + 'Z').getTime() > 300000`
NeverExpired(row) == FALSE

Expired(row) == (clock - row.created_at) * TickMs > SESSION_TTL_MS

\* SELECT ... FROM batch_sessions WHERE chat_id = ? AND user_id = ? [AND mode IN modes]
SessionsOf(chat, user, modes) ==
    { r \in batch_sessions : r.chat_id = chat /\ r.user_id = user /\ r.mode \in modes }

AllModes == SessionModes \cup {"cleanup", "bmv_quick", "filter_date_custom"}

\* a DELETE by id that would remove nothing
DeleteNothingById(id) == batch_sessions

\* DELETE FROM batch_sessions WHERE id = ?
DeleteSessionById(id) == { r \in batch_sessions : r.id # id }

\* a DELETE that would remove nothing
DeleteNoSessions(chat, user, modes) == batch_sessions

\* DELETE FROM batch_sessions WHERE chat_id = ? AND user_id = ? [AND mode = ?]
DeleteSessionsOf(chat, user, modes) == batch_sessions \ SessionsOf(chat, user, modes)

\* the other state a batch handler step leaves alone
serveState == <<clock, deferred, quickDecs>>
mediaTables == <<media_library, config_topics, served_history, last_served,
                 chat_settings, user_filters, user_favorites, user_history,
                 group_history, hist_seq>>

\* a handler starts in a free request slot; slots are filled in order
BeginBatchOp(p) ==
    /\ budget.calls > 0
    /\ pc[p] = "idle"
    /\ \A q \in Procs : q < p => pc[q] # "idle"
    /\ budget' = [budget EXCEPT !.calls = @ - 1]

BatchLocals(op, u, c, k) ==
    [IdleLocals EXCEPT !.op = op, !.userId = u, !.sourceChatId = c, !.mode = k,
                       !.messageId = 100 + (MaxBatchOps - budget.calls)]

\* the handler returns (or throws): its answer is kept for inspection
FinishBatch(p, locals, outcome, text, cnt) ==
    /\ pc' = [pc EXCEPT ![p] = "idle"]
    /\ sv' = [sv EXCEPT ![p] =
                [IdleLocals EXCEPT !.op = locals.op,
                                   !.userId = locals.userId,
                                   !.sourceChatId = locals.sourceChatId,
                                   !.outcome = outcome, !.said = text, !.cnt = cnt]]

Goto(p, locals, label) ==
    /\ pc' = [pc EXCEPT ![p] = label]
    /\ sv' = [sv EXCEPT ![p] = locals]

\* /bd, /bmv (lines 335, 367) and /mv N cat (line 531): the DELETE of the
\* caller's row; the caller is an administrator
BatchStart(p, u, c, k) ==
    /\ BeginBatchOp(p)
    /\ batch_sessions' = DeleteSessionsOf(c, u, AllModes)
    /\ Goto(p, BatchLocals("start", u, c, k), "start_insert")
    /\ UNCHANGED <<mediaTables, session_seq, serveState>>

\* filter_time_custom: the conflict check of lines 1077-1082
FilterInputOpen(p, u, c) ==
    /\ BeginBatchOp(p)
    /\ LET locals == BatchLocals("filter_input", u, c, "filter_date_custom")
       IN  IF SessionsOf(c, u, CONFLICT_MODES) # {}
           THEN FinishBatch(p, locals, "conflict", {"finish the batch session first"}, 0)
           ELSE Goto(p, locals, "start_delete")
    /\ UNCHANGED <<tables, serveState>>

\* line 1083
StartDelete(p) ==
    /\ pc[p] = "start_delete"
    /\ batch_sessions' = DeleteSessionsOf(sv[p].sourceChatId, sv[p].userId, AllModes)
    /\ Goto(p, sv[p], "start_insert")
    /\ UNCHANGED <<mediaTables, session_seq, serveState, budget>>

\* INSERT INTO batch_sessions (lines 336, 368, 532, 1084); the unique index
\* idx_batch_session_user makes the statement fail when the pair has a row:
\* .run() rejects, no try/catch is around it in handleMessage, handleCallback or
\* handleUpdate, so the handler ends with outcome "error" and no answer sent
InsertUnchecked(chat, user) == TRUE

InsertAllowed(chat, user) == SessionsOf(chat, user, AllModes) = {}

StartInsert(p) ==
    /\ pc[p] = "start_insert"
    /\ LET locals == sv[p]
       IN  IF InsertAllowed(locals.sourceChatId, locals.userId)
           THEN /\ batch_sessions' = batch_sessions \cup
                      { SessionRow(session_seq + 1, locals.sourceChatId, locals.userId,
                                   locals.mode, clock) }
                /\ session_seq' = session_seq + 1
                /\ FinishBatch(p, locals, "started", {"session started"}, 0)
           ELSE /\ UNCHANGED <<batch_sessions, session_seq>>
                /\ FinishBatch(p, locals, "error", {}, 0)
    /\ UNCHANGED <<mediaTables, serveState, budget>>


\* a media message (lines 700-739): the session read of line 702.  The message
\* is posted in a topic without a category binding, so when no live session
\* takes it the normal intake of lines 742-756 stores nothing
Collect(p, u, c, f) ==
    /\ BeginBatchOp(p)
    /\ LET found == SessionsOf(c, u, SessionModes)
           locals == [BatchLocals("collect", u, c, "") EXCEPT !.targetId = f]
       IN  IF found = {}
           THEN FinishBatch(p, locals, "intake", {}, 0)
           ELSE \E s \in found :
                  LET l2 == [locals EXCEPT !.sessionId = s.id, !.mode = s.mode]
                  IN  IF Expired(s)
                      THEN Goto(p, l2, "collect_expire")
                      ELSE Goto(p, l2, "collect_lookup")
    /\ UNCHANGED <<tables, serveState>>

\* lines 706-708: the stale row is deleted and the message goes to the intake
CollectExpire(p) ==
    /\ pc[p] = "collect_expire"
    /\ batch_sessions' = DeleteSessionById(sv[p].sessionId)
    /\ FinishBatch(p, sv[p], "intake", {"timed out"}, 0)
    /\ UNCHANGED <<mediaTables, session_seq, serveState, budget>>

\* lines 711-714: SELECT id FROM media_library WHERE file_unique_id = ? AND chat_id = ?
CollectLookup(p) ==
    /\ pc[p] = "collect_lookup"
    /\ LET locals == sv[p]
       IN  IF \E m \in media_library :
                  m.id = locals.targetId /\ m.chat_id = locals.sourceChatId
           THEN Goto(p, locals, "collect_instr")
           ELSE FinishBatch(p, locals, "skipped", {"not in database"}, 0)
    /\ UNCHANGED <<tables, serveState, budget>>

\* lines 717-723: SELECT INSTR(collected_ids, ?) over the stored text
CollectInstr(p) ==
    /\ pc[p] = "collect_instr"
    /\ LET locals == sv[p]
           rows == { r \in batch_sessions : r.id = locals.sessionId }
       IN  IF \E r \in rows :
                  INSTR(JsonArrayText(r.collected_ids), ToDecimal(locals.targetId)) > 0
           THEN FinishBatch(p, locals, "duplicate", {}, 0)
           ELSE Goto(p, locals, "collect_append")
    /\ UNCHANGED <<tables, serveState, budget>>

\* lines 725-727: UPDATE ... json_insert(collected_ids, '$[#]', ?) ... WHERE id = ?
CollectAppend(p) ==
    /\ pc[p] = "collect_append"
    /\ LET locals == sv[p]
       IN  /\ batch_sessions' =
                { IF r.id = locals.sessionId
                  THEN [r EXCEPT !.collected_ids = Append(@, locals.targetId),
                                 !.collected_msg_ids = Append(@, locals.messageId)]
                  ELSE r : r \in batch_sessions }
           /\ Goto(p, locals, "collect_count")
    /\ UNCHANGED <<mediaTables, session_seq, serveState, budget>>

\* lines 729-736: json_array_length and the acknowledgment
CollectCount(p) ==
    /\ pc[p] = "collect_count"
    /\ LET locals == sv[p]
           rows == { r \in batch_sessions : r.id = locals.sessionId }
           cnt == IF rows = {} THEN 1
                  ELSE LET n == Len((CHOOSE r \in rows : TRUE).collected_ids)
                       IN  IF n = 0 THEN 1 ELSE n
       IN  FinishBatch(p, locals, "collected",
                       IF cnt = 1 \/ cnt % 5 = 0 THEN {"collected"} ELSE {}, cnt)
    /\ UNCHANGED <<tables, serveState, budget>>

\* /bd end, /bmv end (lines 340-353, 372-391): the session read and the checks
BatchEnd(p, u, c, k) ==
    /\ BeginBatchOp(p)
    /\ LET found == SessionsOf(c, u, {k})
           locals == BatchLocals("end", u, c, k)
       IN  IF found = {}
           THEN FinishBatch(p, locals, "none", {"not in batch mode"}, 0)
           ELSE \E s \in found :
                  LET l2 == [locals EXCEPT !.sessionId = s.id]
                  IN  IF Expired(s)
                      THEN Goto(p, [l2 EXCEPT !.errDesc = "timed out"], "end_delete")
                      ELSE IF Len(s.collected_ids) = 0
                      THEN Goto(p, [l2 EXCEPT !.errDesc = "nothing collected"], "end_delete")
                      ELSE FinishBatch(p, l2, "prompt", {"confirm"}, Len(s.collected_ids))
    /\ batch_sessions' =
          { IF /\ r \in SessionsOf(c, u, {k})
               /\ ~Expired(r)
               /\ Len(r.collected_ids) > 0
            THEN [r EXCEPT !.prompted = TRUE] ELSE r : r \in batch_sessions }
    /\ UNCHANGED <<mediaTables, session_seq, serveState>>

\* lines 344, 349, 376, 381
EndDelete(p) ==
    /\ pc[p] = "end_delete"
    /\ batch_sessions' = DeleteSessionById(sv[p].sessionId)
    /\ FinishBatch(p, sv[p], "ended", {sv[p].errDesc}, 0)
    /\ UNCHANGED <<mediaTables, session_seq, serveState, budget>>

\* /bd cancel, /bmv cancel (lines 355-360, 393-398): the session read
BatchCancel(p, u, c, k) ==
    /\ BeginBatchOp(p)
    /\ LET found == SessionsOf(c, u, {k})
           locals == BatchLocals("cancel", u, c, k)
       IN  IF found = {}
           THEN FinishBatch(p, locals, "nothing to cancel", {"no ongoing operation"}, 0)
           ELSE \E s \in found : Goto(p, [locals EXCEPT !.sessionId = s.id], "cancel_delete")
    /\ UNCHANGED <<tables, serveState>>

\* lines 358, 396
CancelDelete(p) ==
    /\ pc[p] = "cancel_delete"
    /\ batch_sessions' = DeleteSessionById(sv[p].sessionId)
    /\ FinishBatch(p, sv[p], "cancelled", {"left batch mode"}, 0)
    /\ UNCHANGED <<mediaTables, session_seq, serveState, budget>>

\* callback bs_cancel (lines 917-921)
CancelCallback(p, u, c) ==
    /\ BeginBatchOp(p)
    /\ batch_sessions' = DeleteSessionsOf(c, u, AllModes)
    /\ FinishBatch(p, BatchLocals("bs_cancel", u, c, ""), "cancelled", {"cancelled"}, 0)
    /\ UNCHANGED <<mediaTables, session_seq, serveState>>

\* callbacks bs_cfm_d (lines 867-881) and bs_mv_<cat> (lines 883-895): the
\* session read; the caller is an administrator
BatchConfirm(p, u, c, k, target) ==
    /\ BeginBatchOp(p)
    /\ LET found == SessionsOf(c, u, {k})
           locals == [BatchLocals("confirm", u, c, k) EXCEPT !.category = target]
       IN  IF found = {}
           THEN FinishBatch(p, locals, "none", {"session expired"}, 0)
           ELSE \E s \in found :
                  Goto(p, [locals EXCEPT !.sessionId = s.id, !.ids = s.collected_ids],
                       "confirm_apply")
    /\ UNCHANGED <<tables, serveState>>

SeqRange(q) == { q[i] : i \in DOMAIN q }

\* a bulk delete that removes the library rows only
batchDeleteLibraryOnly(ids) ==
    /\ media_library' = { m \in media_library : m.id \notin ids }
    /\ UNCHANGED <<config_topics, served_history, last_served, chat_settings,
                   user_filters, user_favorites, user_history, group_history, hist_seq>>

\* batchDeleteMediaByIds (lines 2286-2301): one D1.batch, the list fits a chunk
batchDeleteMediaByIds(ids) ==
    /\ media_library' = { m \in media_library : m.id \notin ids }
    /\ served_history' = served_history \ ids
    /\ user_favorites' = { r \in user_favorites : r.media_id \notin ids }
    /\ user_history' = { r \in user_history : r.media_id \notin ids }
    /\ group_history' = { r \in group_history : r.media_id \notin ids }
    /\ UNCHANGED <<config_topics, last_served, chat_settings, user_filters, hist_seq>>

\* batchMoveMediaByIds (lines 2304-2315)
batchMoveMediaByIds(ids, targetCategory) ==
    /\ media_library' = { IF m.id \in ids THEN [m EXCEPT !.category_name = targetCategory]
                          ELSE m : m \in media_library }
    /\ UNCHANGED <<config_topics, served_history, last_served, chat_settings,
                   user_filters, user_favorites, user_history, group_history, hist_seq>>

\* lines 876, 891; `deleted` / `moved` is the sum of the chunk lengths (lines
\* 2298, 2312), that is ids.length
ConfirmApply(p) ==
    /\ pc[p] = "confirm_apply"
    /\ IF sv[p].mode = "bd"
       THEN batchDeleteMediaByIds(SeqRange(sv[p].ids))
       ELSE batchMoveMediaByIds(SeqRange(sv[p].ids), sv[p].category)
    /\ Goto(p, [sv[p] EXCEPT !.cnt = Len(sv[p].ids)], "confirm_cleanup")
    /\ UNCHANGED <<batch_sessions, session_seq, serveState, budget>>

\* lines 879, 893: UPDATE batch_sessions SET mode = 'cleanup' WHERE id = ?
ConfirmCleanup(p) ==
    /\ pc[p] = "confirm_cleanup"
    /\ batch_sessions' = { IF r.id = sv[p].sessionId THEN [r EXCEPT !.mode = "cleanup"]
                           ELSE r : r \in batch_sessions }
    /\ FinishBatch(p, sv[p], "done", {"done, clean up?"}, sv[p].cnt)
    /\ UNCHANGED <<mediaTables, session_seq, serveState, budget>>

\* callback bs_clean_yes (lines 897-909): the session read
CleanYes(p, u, c) ==
    /\ BeginBatchOp(p)
    /\ LET found == SessionsOf(c, u, {"cleanup"})
           locals == BatchLocals("clean_yes", u, c, "cleanup")
       IN  IF found = {}
           THEN FinishBatch(p, locals, "cleaned", {"all done"}, 0)
           ELSE \E s \in found : Goto(p, [locals EXCEPT !.sessionId = s.id], "clean_delete")
    /\ UNCHANGED <<tables, serveState>>

\* line 906
CleanDelete(p) ==
    /\ pc[p] = "clean_delete"
    /\ batch_sessions' = DeleteSessionById(sv[p].sessionId)
    /\ FinishBatch(p, sv[p], "cleaned", {"all done"}, 0)
    /\ UNCHANGED <<mediaTables, session_seq, serveState, budget>>

\* callback bs_clean_no (lines 911-915)
CleanNo(p, u, c) ==
    /\ BeginBatchOp(p)
    /\ batch_sessions' = DeleteSessionsOf(c, u, {"cleanup"})
    /\ FinishBatch(p, BatchLocals("clean_no", u, c, "cleanup"), "cleaned", {"all done"}, 0)
    /\ UNCHANGED <<mediaTables, session_seq, serveState>>

\* handleUpdate, line 291: the DELETE of stale rows that every update hands to
\* ctx.waitUntil without awaiting it; it runs at any point of the handlers
ExpirySweep ==
    /\ \E r \in batch_sessions : Expired(r)
    /\ batch_sessions' = { r \in batch_sessions : ~Expired(r) }
    /\ UNCHANGED <<mediaTables, session_seq, serveState, pc, sv, budget>>

\* more than five minutes pass with no request running
ExpireTick ==
    /\ budget.expiries > 0
    /\ \A p \in Procs : pc[p] = "idle"
    /\ clock' = clock + (SESSION_TTL_MS \div TickMs) + 1
    /\ budget' = [budget EXCEPT !.expiries = @ - 1]
    /\ UNCHANGED <<tables, pc, sv, deferred, quickDecs>>

BatchUsers == Users

BatchStep(p) ==
    \/ StartDelete(p) \/ StartInsert(p)
    \/ CollectExpire(p) \/ CollectLookup(p) \/ CollectInstr(p)
    \/ CollectAppend(p) \/ CollectCount(p)
    \/ EndDelete(p) \/ CancelDelete(p)
    \/ ConfirmApply(p) \/ ConfirmCleanup(p) \/ CleanDelete(p)

BatchOp(p, u, c) ==
    \/ \E k \in SessionModes \cup {"bmv_quick"} : BatchStart(p, u, c, k)
    \/ FilterInputOpen(p, u, c)
    \/ \E f \in Files : Collect(p, u, c, f)
    \/ \E k \in SessionModes : BatchEnd(p, u, c, k)
    \/ \E k \in SessionModes : BatchCancel(p, u, c, k)
    \/ CancelCallback(p, u, c)
    \/ \E k \in SessionModes : BatchConfirm(p, u, c, k, "b")
    \/ CleanYes(p, u, c)
    \/ CleanNo(p, u, c)

\* three records of group -1, record 1 was served before; user 1 has just
\* sent /bd in group -1
InitBatchLibrary ==
    { Row(1, -1, "a", "photo", NoDuration, D_2026_03_10, 1),
      Row(3, -1, "a", "video", 10, D_2026_03_01, 0),
      Row(12, -1, "a", "video", 45, D_2025_12_31, 0) }

InitBatch ==
    InitState(InitBatchLibrary, {1}, InitUserHistory, InitGroupHistory, InitSeq,
              [calls |-> MaxBatchOps, fails |-> 0, admin |-> 0, appends |-> 0,
               expiries |-> MaxExpiries],
              { SessionRow(1, -1, 1, "bd", 0) }, NoFilters)

NextBatch ==
    \/ \E p \in Procs, u \in BatchUsers, c \in BatchChats : BatchOp(p, u, c)
    \/ \E p \in Procs : BatchStep(p)
    \/ ExpirySweep
    \/ ExpireTick

SpecBatch == InitBatch /\ [][NextBatch]_vars


\* --------------------------------------------------- claims on batch sessions
CollectedIn(id) == { r \in batch_sessions : r.id = id }

\* C11: in a live bd/bmv session, submitting an item whose media id is already
\* collected leaves collected_ids and collected_msg_ids unchanged and emits no
\* acknowledgment: the handler ends at its membership test
C11_CollectIdempotent ==
    [][
        \A p \in Procs :
            ( /\ pc[p] = "collect_instr"
              /\ pc'[p] # "collect_instr"
              /\ \E r \in CollectedIn(sv[p].sessionId) :
                     sv[p].targetId \in SeqRange(r.collected_ids) )
            => /\ batch_sessions' = batch_sessions
               /\ pc'[p] = "idle"
               /\ sv'[p].outcome = "duplicate"
               /\ sv'[p].said = {}
    ]_vars

\* item 1 was collected, then submitted again: the collection still has size 1
C11_Witness ==
    /\ \E p \in Procs : sv[p].outcome = "duplicate"
    /\ \E r \in batch_sessions :
           r.collected_ids = <<1>> /\ Len(r.collected_msg_ids) = 1


\* C12: in a live session, an item of the library whose media id is not yet in
\* the collection passes the membership test and goes on to the append, for
\* every combination of ids (so n distinct items give a collection of n)
C12_NewItemAppended ==
    [][
        \A p \in Procs :
            ( /\ pc[p] = "collect_instr"
              /\ pc'[p] # "collect_instr"
              /\ \E r \in CollectedIn(sv[p].sessionId) :
                     sv[p].targetId \notin SeqRange(r.collected_ids) )
            => pc'[p] = "collect_append"
    ]_vars


\* C13: a session older than five minutes behaves as if no session existed; in
\* particular a confirmation that finds only a stale row changes no record of
\* media_library
C13_StaleConfirmMutatesNothing ==
    [][
        \A p \in Procs :
            ( /\ pc[p] = "confirm_apply"
              /\ \E r \in CollectedIn(sv[p].sessionId) : Expired(r) )
            => media_library' = media_library
    ]_vars



\* slot p returns from a cancel (/bd cancel, /bmv cancel or callback bs_cancel)
\* while no other request is running
CancelReturns(p) ==
    /\ \A q \in Procs \ {p} : pc[q] = "idle"
    /\ \/ pc[p] = "cancel_delete"
       \/ pc[p] = "idle" /\ budget'.calls < budget.calls
    /\ pc'[p] = "idle"
    /\ sv'[p].outcome \in {"nothing to cancel", "cancelled"}

\* C17: a cancel in any non-idle state (collecting, awaiting confirmation,
\* cleanup) deletes the caller's session, after which the caller has none, and
\* changes no media record and no dependent row
C17_CancelLeavesNoSession ==
    [][
        \A p \in Procs :
            CancelReturns(p)
            => /\ \A r \in batch_sessions' :
                      ~(r.chat_id = sv'[p].sourceChatId /\ r.user_id = sv'[p].userId)
               /\ mediaTables' = mediaTables
    ]_vars


\* C18: in every reachable state, under any interleaving of start, quick move,
\* filter input and cancel from any users, batch_sessions holds at most one row
\* per (chat, user)
C18_OneSessionPerUser ==
    \A r1 \in batch_sessions, r2 \in batch_sessions :
        (r1.chat_id = r2.chat_id /\ r1.user_id = r2.user_id) => r1 = r2

\* two starts of one user interleaved: the second INSERT met the row of the first
C18_Witness ==
    \E p \in Procs :
        /\ sv[p].outcome = "error"
        /\ \E r \in batch_sessions :
               /\ r.chat_id = sv[p].sourceChatId /\ r.user_id = sv[p].userId
               /\ r.id > 1


\* C19: when collects run concurrently on one live session, every submitted
\* library id is stored exactly once: no collection holds an id twice
C19_StoredExactlyOnce ==
    \A r \in batch_sessions :
        \A i \in DOMAIN r.collected_ids, j \in DOMAIN r.collected_ids :
            r.collected_ids[i] = r.collected_ids[j] => i = j


\* ------------------------------------------------------------ stored filters
\* Rows of user_filters as they can be stored for one (user, group): each part
\* is a function from some of the FILTER_KEYS to text.
D_BAD == <<"2", "0", "2", "6", "-", "3", "-", "1">>

MediaParts ==
    { EmptyFn, "media_type" :> "video", "media_type" :> "photo", "media_type" :> "bogus" }

DateParts ==
    { EmptyFn,
      "date_mode" :> "d7",
      "date_from" :> D_2026_03_01,
      "date_mode" :> "custom" @@ "date_from" :> D_2026_03_01 @@ "date_to" :> D_2026_03_10,
      "date_mode" :> "custom" @@ "date_from" :> D_2026_03_10 @@ "date_to" :> D_2026_03_01,
      "date_mode" :> "custom" @@ "date_from" :> D_2026_03_01,
      "date_mode" :> "custom" @@ "date_to" :> D_2026_03_10,
      "date_mode" :> "custom" @@ "date_from" :> D_BAD @@ "date_to" :> D_2026_03_10,
      "date_mode" :> "bogus" @@ "date_from" :> D_2026_03_01 @@ "date_to" :> D_BAD }

DurationParts ==
    { EmptyFn,
      "duration_mode" :> "s30",
      "duration_mode" :> "s120",
      "duration_max" :> <<"3", "0">>,
      "duration_mode" :> "custom" @@ "duration_max" :> <<" ", "4", "5", " ">>,
      "duration_mode" :> "custom" @@ "duration_max" :> <<"x">>,
      "duration_mode" :> "custom",
      "duration_mode" :> "bogus" @@ "duration_max" :> <<"3", "0">> }

StoredFilters ==
    { a @@ b @@ c : a \in MediaParts, b \in DateParts, c \in DurationParts }

\* sendMainMenu (lines 1143-1153): hasFilter decides the filter button
sendMainMenu(p, u, c) ==
    /\ BeginBatchOp(p)
    /\ c > 0 => c = u
    /\ LET locals == BatchLocals("menu", u, c, "")
           hasFilter == IF c < 0
                        THEN isFilterActive(normalizeFilters(user_filters[<<u, c>>]))
                        ELSE FALSE
           menu == FinishBatch(p, locals, "menu",
                               IF hasFilter THEN {"filter on"} ELSE {"filter off"}, 0)
       IN  IF c > 0
           THEN \E inGroup \in BOOLEAN :
                    IF inGroup THEN menu
                    ELSE FinishBatch(p, locals, "refused", {"not a member"}, 0)
           ELSE menu
    /\ UNCHANGED <<tables, serveState>>

\* group -1, category a: a photo and videos of 10 s, 45 s and unknown duration
FilterLibrary ==
    { Row(1, -1, "a", "photo", NoDuration, D_2026_03_10, 1),
      Row(2, -1, "a", "video", 10, D_2026_03_01, 0),
      Row(3, -1, "a", "video", 45, D_2025_12_31, 0),
      Row(4, -1, "a", "video", NoDuration, D_2026_03_10, 0) }

InitFilter ==
    \E raw \in StoredFilters :
        InitState(FilterLibrary, {1}, InitUserHistory, InitGroupHistory, InitSeq,
                  [calls |-> 1, fails |-> MaxFailures, admin |-> 0, appends |-> 0],
                  {}, [NoFilters EXCEPT ![<<1, -1>>] = raw])

NextFilter ==
    \/ \E p \in Procs : ServeStep(p)
    \/ \E t \in deferred : RunDeferred(t)
    \/ \E p \in Procs, u \in Requesters, c \in ServedChats \cup Requesters :
          sendMainMenu(p, u, c)

SpecFilter == InitFilter /\ [][NextFilter]_vars

\* the value a stored filter has for a key (getUserFiltersBatch merges the
\* stored rows over the defaults)
StoredField(raw, k) == IF k \in DOMAIN raw THEN raw[k] ELSE FILTER_DEFAULTS[k]

\* the filter isFilterActive was given by the main menu of slot p
MenuFilter(p) == normalizeFilters(user_filters[<<sv[p].userId, sv[p].sourceChatId>>])

\* C14 as stated: isFilterActive is true iff at least one of the six fields of
\* the filter differs from its default
C14_ActiveIffAnyFieldDiffers ==
    \A p \in Procs :
        (pc[p] = "idle" /\ sv[p].outcome = "menu" /\ sv[p].sourceChatId < 0) =>
            ( "filter on" \in sv[p].said
              <=> \E k \in FILTER_KEYS : MenuFilter(p)[k] # FILTER_DEFAULTS[k] )

\* C14, amended: isFilterActive is true iff, after normalization, at least one
\* of media_type, date_mode and duration_mode differs from "all"; date_from,
\* date_to and duration_max alone do not make a filter active
C14_ActiveIffAnyModeDiffers ==
    \A p \in Procs :
        (pc[p] = "idle" /\ sv[p].outcome = "menu" /\ sv[p].sourceChatId < 0) =>
            ( "filter on" \in sv[p].said
              <=> \E k \in {"media_type", "date_mode", "duration_mode"} :
                      MenuFilter(p)[k] # FILTER_DEFAULTS[k] )

\* the menu was shown for a filter whose only non-default field is date_from
C14_Witness ==
    \E p \in Procs :
        /\ pc[p] = "idle" /\ sv[p].outcome = "menu" /\ sv[p].sourceChatId < 0
        /\ "filter off" \in sv[p].said
        /\ MenuFilter(p).date_from # <<>>

\* the stored filter read by the call running in slot p
StoredOf(p) == user_filters[<<sv[p].userId, sv[p].sourceChatId>>]

\* the stored filter without its date rows
WithoutDates(raw) ==
    [k \in DOMAIN raw \ {"date_mode", "date_from", "date_to"} |-> raw[k]]

\* C15: a stored filter with date_mode = custom whose date_from is later than
\* date_to, or whose date_from or date_to is missing or not a YYYY-MM-DD string,
\* normalizes to date_mode = all with both dates empty; media_type and the
\* duration fields are as they normalize without the date rows
C15_BadCustomDateFallsBack ==
    \A p \in Procs :
        LET raw == StoredOf(p)
            from == StoredField(raw, "date_from")
            to == StoredField(raw, "date_to")
            f == sv[p].filters
            rest == normalizeFilters(WithoutDates(raw))
        IN  ( /\ pc[p] # "idle"
              /\ StoredField(raw, "date_mode") = "custom"
              /\ \/ ~FILTER_DATE_RE(from)
                 \/ ~FILTER_DATE_RE(to)
                 \/ StrGreater(from, to) )
            => /\ f.date_mode = "all" /\ f.date_from = <<>> /\ f.date_to = <<>>
               /\ f.media_type = rest.media_type
               /\ f.duration_mode = rest.duration_mode
               /\ f.duration_max = rest.duration_max

\* a call runs on a stored filter {video, custom 2026-03-10..2026-03-01, s30}
C15_Witness ==
    \E p \in Procs :
        /\ pc[p] = "select"
        /\ StoredField(StoredOf(p), "date_mode") = "custom"
        /\ StrGreater(StoredField(StoredOf(p), "date_from"),
                      StoredField(StoredOf(p), "date_to"))
        /\ FILTER_DATE_RE(StoredField(StoredOf(p), "date_to"))
        /\ sv[p].filters.date_mode = "all"
        /\ sv[p].filters.media_type = "video"
        /\ sv[p].filters.duration_mode = "s30"

\* the ceiling the claim names for a normalized filter whose duration_mode is
\* not all
C16_Ceiling(f) ==
    CASE f.duration_mode = "s30" -> 30
      [] f.duration_mode = "s60" -> 60
      [] f.duration_mode = "s120" -> 120
      [] f.duration_mode = "s300" -> 300
      [] f.duration_mode = "custom" -> ParseInt(f.duration_max)

\* C16: when the filter's duration_mode is not all, a selection returns only a
\* record whose duration is non-null and at most the ceiling (30/60/120/300 for
\* the presets, duration_max for custom) and whose media_type matches when that
\* is not all
C16_DurationCeilingRespected ==
    [][
        \A p \in Procs :
            ( /\ pc[p] \in {"select", "reselect"}
              /\ pc'[p] \in {"fetch", "refetch"}
              /\ sv[p].filters.duration_mode # "all" )
            => \E m \in media_library :
                   /\ m.id = sv'[p].targetId
                   /\ m.duration # NoDuration
                   /\ m.duration <= C16_Ceiling(sv[p].filters)
                   /\ sv[p].filters.media_type # "all"
                          => m.media_type = sv[p].filters.media_type
    ]_vars

\* filter {video, s30} over the videos of 10 s, 45 s and unknown duration: the
\* 10 s record was selected
C16_Witness ==
    \E p \in Procs :
        /\ pc[p] = "fetch"
        /\ sv[p].filters.media_type = "video"
        /\ sv[p].filters.duration_mode = "s30"
        /\ sv[p].targetId = 2
        /\ SelectIds(sv[p].category, sv[p].sourceChatId, sv[p].useAntiRepeat,
                     sv[p].excludeMediaId, sv[p].filters) = {2}
        /\ \E m \in media_library : m.media_type = "video" /\ m.duration = 45
        /\ \E m \in media_library : m.media_type = "video" /\ m.duration = NoDuration


\* C20: with anti-repeat on, the marker of a delivered record is written
\* synchronously: when the call returns after a successful delivery the record
\* is in served_history, and no marker write is left to run after the return
C20_MarkerWrittenBeforeResponse ==
    [][
        \A p \in Procs :
            ( /\ pc[p] = "deliver"
              /\ pc'[p] = "idle"
              /\ sv'[p].outcome = "delivered"
              /\ sv[p].useAntiRepeat )
            => /\ sv[p].media.id \in served_history'
               /\ \A b \in deferred' : \A i \in DOMAIN b : b[i].stmt # "add_marker"
    ]_vars


\* ------------------------------------------------ claims on purge and effects
\* C21: once a serve request has completed the purge of a failed record (or of
\* a failed scope), no selection executed afterwards by any request returns a
\* purged record: the purge removes the rows in the step it runs, no step
\* brings a removed id back, and a selection returns only rows it reads from
\* media_library
C21_PurgedNeverReselected ==
    [][
        /\ \A p \in Procs :
              /\ (pc[p] = "purge_item" /\ pc'[p] # "purge_item")
                    => sv[p].media.id \notin Ids(media_library')
              /\ (pc[p] = "purge_scope" /\ pc'[p] # "purge_scope")
                    => \A m \in media_library' : m.chat_id # sv[p].media.chat_id
              /\ (pc[p] \in {"select", "reselect"} /\ pc'[p] \in {"fetch", "refetch"})
                    => sv'[p].targetId \in Ids(media_library)
              /\ (pc[p] \in {"fetch", "refetch"} /\ pc'[p] = "deliver")
                    => sv'[p].media \in media_library
        /\ Ids(media_library') \subseteq Ids(media_library)
    ]_vars

\* a request selected again after its own item purge, the purged record gone
C21_Witness ==
    \E p \in Procs :
        /\ pc[p] = "fetch"
        /\ sv[p].attempts = 2
        /\ sv[p].sends = 1
        /\ Cardinality(media_library) < Cardinality(InitLibrary)
        /\ \E q \in Procs \ {p} : pc[q] # "idle"


\* C22: no public operation lets an exception past its boundary; every
\* operation, two concurrent starts for one (chat, user) included, ends in a
\* classified outcome (never with the rejected promise recorded as "error")
C22_NoUncaughtException ==
    \A p \in Procs : sv[p].outcome # "error"


C24_ConfirmOnlyAfterEnd ==
    [][
        \A p \in Procs :
            ( /\ pc[p] = "confirm_apply"
              /\ pc'[p] # "confirm_apply"
              /\ \E r \in CollectedIn(sv[p].sessionId) : ~r.prompted )
            => media_library' = media_library
    ]_vars


\* C25: after end() has succeeded on a non-empty session the collected id set
\* is frozen: no later step changes the collected_ids of that session, so the
\* confirmation works on exactly the ids that end() reported
C25_FrozenAfterEnd ==
    [][
        \A r \in batch_sessions : \A r2 \in batch_sessions' :
            (r.prompted /\ r2.id = r.id) => r2.collected_ids = r.collected_ids
    ]_vars


C27_ConfirmEffects ==
    [][
        \A p \in Procs :
            /\ (pc[p] = "confirm_apply" /\ pc'[p] = "confirm_cleanup" /\ sv[p].mode = "bd")
               => LET ids == SeqRange(sv[p].ids)
                  IN  /\ Ids(media_library') \cap ids = {}
                      /\ served_history' \cap ids = {}
                      /\ \A r \in user_favorites' \cup user_history' \cup group_history' :
                            r.media_id \notin ids
                      /\ { m \in media_library : m.id \notin ids } = media_library'
            /\ (pc[p] = "confirm_apply" /\ pc'[p] = "confirm_cleanup" /\ sv[p].mode = "bmv")
               => LET ids == SeqRange(sv[p].ids)
                  IN  /\ Ids(media_library') = Ids(media_library)
                      /\ \A m \in media_library' :
                            IF m.id \in ids
                            THEN /\ m.category_name = sv[p].category
                                 /\ \E o \in media_library :
                                       o.id = m.id /\ m = [o EXCEPT !.category_name =
                                                                      sv[p].category]
                            ELSE m \in media_library
                      /\ UNCHANGED <<served_history, user_favorites, user_history,
                                     group_history>>
            /\ (pc[p] = "confirm_cleanup" /\ pc'[p] = "idle")
               => /\ { r.id : r \in batch_sessions' } = { r.id : r \in batch_sessions }
                  /\ \A r \in batch_sessions :
                        IF r.id = sv[p].sessionId
                        THEN [r EXCEPT !.mode = "cleanup"] \in batch_sessions'
                        ELSE r \in batch_sessions'
                  /\ UNCHANGED mediaTables
    ]_vars

\* user 1 forwarded record 1, which carries a served marker and history rows,
\* and confirmed the deletion: the record and its rows are gone and the session
\* is in cleanup with the forwarded message's id
C27_Witness ==
    /\ \E p \in Procs : pc[p] = "idle" /\ sv[p].op = "confirm" /\ sv[p].outcome = "done"
    /\ \E r \in batch_sessions :
          /\ r.mode = "cleanup" /\ r.collected_ids = <<1>> /\ r.collected_msg_ids # <<>>
    /\ 1 \notin Ids(media_library) \cup served_history
    /\ user_history = {} /\ group_history = {}

\* the statements of a batch, and the batch whose head statement a step ran
StmtsOf(b) == { b[i].stmt : i \in DOMAIN b }
RanIn(b) ==
    /\ b \in deferred
    /\ deferred' = (deferred \ {b}) \cup (IF Len(b) > 1 THEN {Tail(b)} ELSE {})
    /\ pc' = pc

\* C28: a successful delivery of r hands over exactly one batch for r: the
\* marker insert iff anti-repeat is enabled, the last_served upsert with the
\* time of the call, the view_count increment and the two history inserts, and
\* changes no table itself; each of these statements, when it runs, has its one
\* effect: r joins served_history, last_served of the user becomes (r, time of
\* the call), the row of r (where it exists) gains one view, one user_history
\* row of the user and one group_history row of the scope naming r is added
\* (the 50-row triggers are the subject of C9 and C10)
C28_SuccessEffects ==
    [][
        /\ \A p \in Procs :
              (pc[p] = "deliver" /\ pc'[p] = "idle" /\ sv'[p].outcome = "delivered")
              => /\ UNCHANGED tables
                 /\ deferred \subseteq deferred'
                 /\ \E b \in deferred' \ deferred :
                       /\ deferred' = deferred \cup {b}
                       /\ StmtsOf(b) = (IF sv[p].useAntiRepeat THEN {"add_marker"} ELSE {})
                                           \cup {"upsert_last", "inc_view", "ins_uhist",
                                                 "ins_ghist"}
                       /\ Len(b) = Cardinality(StmtsOf(b))
                       /\ \A i \in DOMAIN b :
                             /\ b[i].media_id = sv[p].media.id
                             /\ b[i].user_id = sv[p].userId
                             /\ b[i].chat_id = sv[p].sourceChatId
                             /\ b[i].at = sv[p].now
        /\ \A b \in deferred :
              RanIn(b) =>
                LET t == Head(b)
                    r == t.media_id
                IN  /\ t.stmt = "add_marker"
                        => /\ served_history' = served_history \cup {r}
                           /\ UNCHANGED <<media_library, last_served, user_history,
                                          group_history>>
                    /\ t.stmt = "upsert_last"
                        => /\ t.user_id \in DOMAIN last_served'
                           /\ last_served'[t.user_id] =
                                 [last_media_id |-> r, served_at |-> t.at]
                           /\ \A u \in DOMAIN last_served \ {t.user_id} :
                                 u \in DOMAIN last_served' /\ last_served'[u] = last_served[u]
                           /\ UNCHANGED <<media_library, served_history, user_history,
                                          group_history>>
                    /\ t.stmt = "inc_view"
                        => /\ Ids(media_library') = Ids(media_library)
                           /\ \A m \in media_library :
                                 IF m.id = r
                                 THEN [m EXCEPT !.view_count = @ + 1] \in media_library'
                                 ELSE m \in media_library'
                           /\ UNCHANGED <<served_history, last_served, user_history,
                                          group_history>>
                    /\ t.stmt = "ins_uhist"
                        => /\ \E h \in user_history' \ user_history :
                                 /\ user_history' = user_history \cup {h}
                                 /\ h.user_id = t.user_id /\ h.chat_id = t.chat_id
                                 /\ h.media_id = r
                                 /\ \A o \in user_history : o.id < h.id
                           /\ UNCHANGED <<media_library, served_history, last_served,
                                          group_history>>
                    /\ t.stmt = "ins_ghist"
                        => /\ \E h \in group_history' \ group_history :
                                 /\ group_history' = group_history \cup {h}
                                 /\ h.chat_id = t.chat_id /\ h.media_id = r
                                 /\ \A o \in group_history : o.id < h.id
                           /\ UNCHANGED <<media_library, served_history, last_served,
                                          user_history>>
    ]_vars

\* record 2 was delivered to user 1 in group -1 with anti-repeat on and the
\* deferred work has completed: marker, last_served, view count and both logs
\* show it
C28_Witness ==
    /\ deferred = {}
    /\ \E p \in Procs : pc[p] = "idle" /\ sv[p].outcome = "delivered"
    /\ 2 \in served_history
    /\ 1 \in DOMAIN last_served /\ last_served[1].last_media_id = 2
    /\ \E m \in media_library : m.id = 2 /\ m.view_count = 1
    /\ \E h \in user_history : h.media_id = 2 /\ h.user_id = 1
    /\ \E h \in group_history : h.media_id = 2 /\ h.chat_id = -1

\* the statements only a delivery hands to ctx.waitUntil
SuccessStmts == {"add_marker", "upsert_last", "inc_view", "ins_uhist", "ins_ghist"}

\* C29: when the one call of the run has ended with "retries exhausted" (three
\* failed deliveries) or with "no content", no success statement is pending or
\* has run: served_history holds no new marker, both history logs and the
\* user's last_served row are as before the call and no view_count is above its
\* value before the call; every purge stays applied: after three failures at
\* most one of the four records is left and no record reappears
C29_FailureFrame ==
    \A p \in Procs :
        sv[p].outcome \in {"exhausted", "nothing"} =>
            /\ \A b \in deferred : StmtsOf(b) \cap SuccessStmts = {}
            /\ served_history \subseteq {1, 2}
            /\ user_history = InitUserHistory
            /\ group_history = InitGroupHistory
            /\ last_served = Upsert(EmptyFn, 1, [last_media_id |-> 1, served_at |-> 0])
            /\ \A m \in media_library :
                  \E o \in RetryLibrary : o.id = m.id /\ m.view_count <= o.view_count
            /\ sv[p].outcome = "exhausted" =>
                  /\ sv[p].sends = MAX_ATTEMPTS
                  /\ "retries exhausted" \in sv[p].said
                  /\ Cardinality(media_library) <= Cardinality(RetryLibrary) - MAX_ATTEMPTS

\* a call gave up after three item-level purges and its deferred quick-advance
\* statements have run
C29_Witness ==
    /\ deferred = {}
    /\ Cardinality(media_library) = 1
    /\ config_topics = InitTopics
    /\ \E p \in Procs : sv[p].outcome = "exhausted" /\ sv[p].sends = MAX_ATTEMPTS
    /\ quickDecs[1] = 1

\* C30: an advance request that finds the user's last_served row less than 30
\* seconds old hands over one batch: the decrement of the previous record and,
\* iff strict_skip is off and anti-repeat is on, the DELETE of that record's
\* marker; an advance outside the window hands over nothing.  The DELETE, when
\* it runs, removes that marker and no other.  Apart from it only the
\* exhaustion reset and the deletion of a record remove markers, so under
\* strict_skip the marker of the skipped record stays
C30_QuickAdvanceMarker ==
    [][
        /\ \A p \in Procs :
              (pc[p] = "last" /\ pc'[p] = "select") =>
                LET u == sv[p].userId
                    quick == /\ u \in DOMAIN last_served
                             /\ sv[p].now - last_served[u].served_at < 30000
                IN  /\ UNCHANGED tables
                    /\ ~quick => deferred' = deferred
                    /\ quick =>
                          \E b \in deferred' \ deferred :
                              /\ deferred' = deferred \cup {b}
                              /\ \A i \in DOMAIN b :
                                    b[i].media_id = last_served[u].last_media_id
                              /\ Len(b) = Cardinality(StmtsOf(b))
                              /\ "dec_view" \in StmtsOf(b)
                              /\ StmtsOf(b) \subseteq {"dec_view", "del_marker"}
                              /\ "del_marker" \in StmtsOf(b)
                                    <=> ( /\ chat_settings[sv[p].sourceChatId].strict_skip
                                              # "true"
                                          /\ chat_settings[sv[p].sourceChatId].anti_repeat
                                              = "true" )
        /\ \A b \in deferred :
              (RanIn(b) /\ Head(b).stmt = "del_marker")
                 => served_history' = served_history \ {Head(b).media_id}
        /\ ~(served_history \subseteq served_history')
              => \/ \E b \in deferred : RanIn(b) /\ Head(b).stmt = "del_marker"
                 \/ \E p \in Procs : pc[p] = "reset" /\ pc'[p] = "reselect"
                 \/ budget'.admin < budget.admin
    ]_vars

\* strict_skip is on and user 1 advanced within the window: record 1 lost a
\* view and kept its marker
C30_Witness ==
    /\ chat_settings[-1].strict_skip = "true"
    /\ chat_settings[-1].anti_repeat = "true"
    /\ quickDecs[1] = 1
    /\ deferred = {}
    /\ 1 \in served_history
    /\ \E m \in media_library : m.id = 1 /\ m.view_count = 0

\* the record user u was delivered last: the one a delivery has handed to
\* ctx.waitUntil for last_served and that is not written yet, else the one the
\* last_served row names (a run holds at most two calls, so at most one such
\* statement is pending when the other call delivers)
PendingLast(u) ==
    UNION { { b[i].media_id : i \in { j \in DOMAIN b : /\ b[j].stmt = "upsert_last"
                                                        /\ b[j].user_id = u } }
            : b \in deferred }
ServedLast(u) ==
    IF PendingLast(u) # {} THEN PendingLast(u)
    ELSE IF u \in DOMAIN last_served THEN {last_served[u].last_media_id} ELSE {}

\* C31: an advance request never delivers the record its user was served last
C31_AdvanceSkipsLast ==
    [][
        \A p \in Procs :
            ( /\ pc[p] = "deliver" /\ pc'[p] = "idle" /\ sv'[p].outcome = "delivered"
              /\ sv[p].isNext )
            => sv[p].media.id \notin ServedLast(sv[p].userId)
    ]_vars

\* the data-model invariant of a filter preference
WellFormedFilter(f) ==
    /\ f.media_type \in {"all", "photo", "video", "animation"}
    /\ f.date_mode \in {"all", "today", "d7", "d30", "year", "custom"}
    /\ f.duration_mode \in {"all", "s30", "s60", "s120", "s300", "custom"}
    /\ f.date_mode = "custom" =>
          /\ FILTER_DATE_RE(f.date_from) /\ FILTER_DATE_RE(f.date_to)
          /\ ~StrGreater(f.date_from, f.date_to)
    /\ f.duration_mode = "custom" =>
          /\ f.duration_max # <<>>
          /\ \A i \in DOMAIN f.duration_max : f.duration_max[i] \in Digits

\* C32: whatever the stored filter rows hold, the filter a call works with
\* (getUserFiltersBatch, read at the start of the call) has its three modes in
\* their enumerations, two well-formed ordered dates when date_mode is custom
\* and a string of digits as duration_max when duration_mode is custom
C32_FilterWellFormed ==
    \A p \in Procs : WellFormedFilter(sv[p].filters)

\* a call read stored rows with an unknown media type, a custom date range with
\* a malformed bound and a custom duration that is no number: every field fell
\* back to its default
C32_Witness ==
    /\ StoredField(user_filters[<<1, -1>>], "media_type") = "bogus"
    /\ StoredField(user_filters[<<1, -1>>], "date_from") = D_BAD
    /\ StoredField(user_filters[<<1, -1>>], "duration_max") = <<"x">>
    /\ \E p \in Procs : pc[p] = "deliver" /\ sv[p].filters = FILTER_DEFAULTS


\* ------------------------------------------------- listings and step-back
\* `const limit = 5` (lines 1568, 1594); the runs keep every log below it, so
\* page 0 holds all rows of the owner
LIST_LIMIT == 5

\* the listing returns: its rows and its total stay readable
FinishList(p, locals, outcome, cnt) ==
    /\ pc' = [pc EXCEPT ![p] = "idle"]
    /\ sv' = [sv EXCEPT ![p] =
                [IdleLocals EXCEPT !.op = locals.op, !.userId = locals.userId,
                                   !.sourceChatId = locals.sourceChatId,
                                   !.outcome = outcome, !.cnt = cnt,
                                   !.listed = locals.listed]]

\* m.id of `dep LEFT JOIN media_library m ON dep.media_id = m.id`: NULL (NoId)
\* where no record has that id
LeftJoinId(mediaId) == IF mediaId \in { m.id : m \in media_library } THEN mediaId ELSE NoId

\* showFavoritesList, line 1569: the page query
showFavoritesList(p, u, c) ==
    /\ BeginBatchOp(p)
    /\ c > 0 => c = u
    /\ LET rows == { f \in user_favorites : f.user_id = u }
           results == { [ref |-> f.media_id, media_id |-> LeftJoinId(f.media_id)] :
                        f \in rows }
       IN  /\ Cardinality(rows) <= LIST_LIMIT
           /\ Goto(p, [BatchLocals("favorites", u, c, "") EXCEPT !.listed = results],
                   "fav_count")
    /\ UNCHANGED <<tables, serveState>>

\* showFavoritesList, lines 1570-1590: the count(*) query and the answer
FavoritesCount(p) ==
    /\ pc[p] = "fav_count"
    /\ LET c == Cardinality({ f \in user_favorites : f.user_id = sv[p].userId })
       IN  IF sv[p].listed = {}
           THEN FinishList(p, sv[p], "empty", 0)
           ELSE FinishList(p, sv[p], "listed", c)
    /\ UNCHANGED <<tables, serveState, budget>>

\* the log showHistoryList reads: user_history in a private chat, group_history
\* in a group (lines 1596-1603)
HistoryRows(u, c) ==
    IF c > 0 THEN { h \in user_history : h.user_id = u }
    ELSE { h \in group_history : h.chat_id = c }

\* showHistoryList, lines 1597 / 1601: the page query
showHistoryList(p, u, c) ==
    /\ BeginBatchOp(p)
    /\ c > 0 => c = u
    /\ LET rows == HistoryRows(u, c)
           results == { [ref |-> h.media_id, media_id |-> LeftJoinId(h.media_id)] :
                        h \in rows }
       IN  /\ Cardinality(rows) <= LIST_LIMIT
           /\ Goto(p, [BatchLocals("history", u, c, "") EXCEPT !.listed = results],
                   "hist_count")
    /\ UNCHANGED <<tables, serveState>>

\* showHistoryList, lines 1598 / 1602 and 1606-1625: the count(*) query and the
\* answer
HistoryCount(p) ==
    /\ pc[p] = "hist_count"
    /\ LET c == Cardinality(HistoryRows(sv[p].userId, sv[p].sourceChatId))
       IN  IF sv[p].listed = {}
           THEN FinishList(p, sv[p], "empty", 0)
           ELSE FinishList(p, sv[p], "listed", c)
    /\ UNCHANGED <<tables, serveState, budget>>

\* the rows `ORDER BY h.viewed_at DESC LIMIT 1 OFFSET n` can return: n rows are
\* newer or tie with it
OffsetRows(rows, n) ==
    { r \in rows :
        LET newer == Cardinality({ q \in rows : q.viewed_at > r.viewed_at })
            ties == Cardinality({ q \in rows : q.viewed_at = r.viewed_at })
        IN  newer <= n /\ n < newer + ties }

\* sendHistoricalMedia (lines 1323-1366): user_history JOIN media_library; the
\* sends that follow write nothing
sendHistoricalMedia(p, u, c, category, sourceChatId, offset) ==
    /\ BeginBatchOp(p)
    /\ c > 0 => c = u
    /\ c < 0 => sourceChatId = c
    /\ LET joined == { h \in user_history :
                         /\ h.user_id = u /\ h.chat_id = sourceChatId
                         /\ \E m \in media_library :
                               m.id = h.media_id /\ m.category_name = category }
           locals == BatchLocals("prev", u, sourceChatId, "")
       IN  IF OffsetRows(joined, offset) = {}
           THEN FinishList(p, locals, "end of history", 0)
           ELSE \E h \in OffsetRows(joined, offset) :
                  FinishList(p, [locals EXCEPT !.listed =
                                   {[ref |-> h.media_id, media_id |-> h.media_id]}],
                             "stepped", 1)
    /\ UNCHANGED <<tables, serveState>>

\* group -1 with two records of category a; user 1 has both as favorites and
\* was served both
ListLibrary ==
    { Row(1, -1, "a", "photo", NoDuration, D_2026_03_10, 1),
      Row(2, -1, "a", "video", 10, D_2026_03_01, 1) }

InitList ==
    /\ media_library = ListLibrary
    /\ config_topics = InitTopics
    /\ served_history = {1, 2}
    /\ last_served = Upsert(EmptyFn, 1, [last_media_id |-> 2, served_at |-> 0])
    /\ chat_settings = [c \in Chats |-> SETTING_DEFAULTS]
    /\ user_filters = NoFilters
    /\ user_favorites = { [user_id |-> 1, media_id |-> 1], [user_id |-> 1, media_id |-> 2] }
    /\ user_history =
          { [id |-> i, user_id |-> 1, chat_id |-> -1, media_id |-> i, viewed_at |-> 0] :
            i \in {1, 2} }
    /\ group_history =
          { [id |-> i, chat_id |-> -1, media_id |-> i, viewed_at |-> 0] : i \in {1, 2} }
    /\ hist_seq = [user |-> 2, group |-> 2, user_owner |-> 1, group_owner |-> -1]
    /\ clock = 0
    /\ pc = [p \in Procs |-> "idle"]
    /\ sv = [p \in Procs |-> IdleLocals]
    /\ deferred = {}
    /\ quickDecs = [u \in Users |-> 0]
    /\ budget = [calls |-> MaxCalls, fails |-> MaxFailures, admin |-> 0, appends |-> 0]
    /\ batch_sessions = {}
    /\ session_seq = 0

NextList ==
    \/ \E p \in Procs : ServeStep(p)
    \/ \E t \in deferred : RunDeferred(t)
    \/ \E p \in Procs, u \in Requesters, c \in ServedChats \cup Requesters :
          \/ showFavoritesList(p, u, c)
          \/ showHistoryList(p, u, c)
          \/ \E offset \in {0, 1} : sendHistoricalMedia(p, u, c, "a", -1, offset)
    \/ \E p \in Procs : FavoritesCount(p) \/ HistoryCount(p)

SpecList == InitList /\ [][NextList]_vars

\* C33: no read path returns or counts a dependent row whose record is gone:
\* every row of a favorites or history page names a record of media_library,
\* the total of the page counts only such rows, and step-back returns a record
\* of media_library
C33_OrphansInvisible ==
    [][
        \A p \in Procs :
            /\ (pc[p] = "idle" /\ pc'[p] \in {"fav_count", "hist_count"})
               => \A r \in sv'[p].listed : r.ref \in Ids(media_library)
            /\ (pc[p] = "fav_count" /\ pc'[p] = "idle" /\ sv'[p].outcome = "listed")
               => sv'[p].cnt = Cardinality({ f \in user_favorites :
                                               /\ f.user_id = sv[p].userId
                                               /\ f.media_id \in Ids(media_library) })
            /\ (pc[p] = "hist_count" /\ pc'[p] = "idle" /\ sv'[p].outcome = "listed")
               => sv'[p].cnt = Cardinality({ h \in HistoryRows(sv[p].userId,
                                                              sv[p].sourceChatId) :
                                               h.media_id \in Ids(media_library) })
            /\ (pc[p] = "idle" /\ sv'[p] # sv[p] /\ sv'[p].outcome = "stepped")
               => \A r \in sv'[p].listed : r.ref \in Ids(media_library)
    ]_vars


\* ------------------------------------------------------------- termination
\* every awaited store or delivery call of a running request returns, so a
\* request that can take its next step takes it
SpecRetryLive == SpecRetry /\ \A p \in Procs : WF_vars(ServeStep(p))

ServeOutcomes == {"delivered", "nothing", "exhausted", "refused"}

\* C34: a serve call that has started ends, with exactly one of the outcomes
\* delivered, nothing to serve, retries exhausted or refused, and it never
\* enters a fourth selection / delivery cycle
C34_ServeTerminates ==
    /\ [](\A p \in Procs :
            /\ sv[p].attempts <= MAX_ATTEMPTS
            /\ sv[p].outcome \in ServeOutcomes \cup {"none"}
            /\ pc[p] # "idle" => sv[p].outcome = "none")
    /\ \A p \in Procs :
          (pc[p] # "idle") ~> (pc[p] = "idle" /\ sv[p].outcome \in ServeOutcomes)

\* a call went through the exhaustion reset and gave up after its third
\* failed delivery
C34_Witness ==
    \E p \in Procs :
        /\ pc[p] = "idle" /\ sv[p].outcome = "exhausted"
        /\ "pool exhausted" \in sv[p].said


\* ------------------------------------------------------- statistics reset
\* callback set_clear_stats_do (lines 999-1005), an administrator's request:
\* line 1000, UPDATE media_library SET view_count = 0 WHERE chat_id = ?
ClearStatsViews(p, u, c) ==
    /\ budget.admin > 0
    /\ pc[p] = "idle"
    /\ \A q \in Procs : q < p => pc[q] # "idle"
    /\ budget' = [budget EXCEPT !.admin = @ - 1]
    /\ media_library' = { IF m.chat_id = c THEN [m EXCEPT !.view_count = 0] ELSE m :
                          m \in media_library }
    /\ Goto(p, BatchLocals("clear_stats", u, c, ""), "clear_markers")
    /\ UNCHANGED <<config_topics, served_history, last_served, chat_settings,
                   user_filters, user_favorites, user_history, group_history, hist_seq,
                   batch_sessions, session_seq, serveState>>

\* line 1001: DELETE FROM served_history WHERE media_id IN (SELECT id ... chat_id = ?)
ClearStatsMarkers(p) ==
    /\ pc[p] = "clear_markers"
    /\ served_history' =
          served_history \ { m.id : m \in { r \in media_library :
                                                r.chat_id = sv[p].sourceChatId } }
    /\ Goto(p, sv[p], "clear_ghist")
    /\ UNCHANGED <<media_library, config_topics, last_served, chat_settings,
                   user_filters, user_favorites, user_history, group_history, hist_seq,
                   batch_sessions, session_seq, serveState, budget>>

\* line 1002: DELETE FROM group_history WHERE chat_id = ?
ClearStatsGroup(p) ==
    /\ pc[p] = "clear_ghist"
    /\ group_history' = { h \in group_history : h.chat_id # sv[p].sourceChatId }
    /\ Goto(p, sv[p], "clear_uhist")
    /\ UNCHANGED <<media_library, config_topics, served_history, last_served,
                   chat_settings, user_filters, user_favorites, user_history, hist_seq,
                   batch_sessions, session_seq, serveState, budget>>

\* lines 1003-1005: DELETE FROM user_history WHERE chat_id = ?, then the answer
ClearStatsUser(p) ==
    /\ pc[p] = "clear_uhist"
    /\ user_history' = { h \in user_history : h.chat_id # sv[p].sourceChatId }
    /\ FinishBatch(p, sv[p], "stats cleared", {"stats cleared"}, 0)
    /\ UNCHANGED <<media_library, config_topics, served_history, last_served,
                   chat_settings, user_filters, user_favorites, group_history, hist_seq,
                   batch_sessions, session_seq, serveState, budget>>

\* draws and advances of user 1 in group -1, category a, their deferred
\* statements and one statistics reset; every delivery succeeds
InitStats ==
    InitState(InitLibrary, {1}, InitUserHistory, InitGroupHistory, InitSeq,
              [calls |-> MaxCalls, fails |-> 0, admin |-> MaxAdminOps, appends |-> 0],
              {}, NoFilters)

NextStats ==
    \/ \E p \in Procs :
          \/ \E u \in Requesters, c \in ServedChats, nxt \in BOOLEAN :
                ServeStart(p, u, c, "a", c, nxt)
          \/ ServeReadLast(p) \/ ServeSelect(p) \/ ServeFetch(p) \/ ServeTotalCheck(p)
          \/ ServeReset(p) \/ ServeReselect(p) \/ ServeRefetch(p) \/ ServeDeliver(p)
    \/ \E t \in deferred : RunDeferred(t)
    \/ \E p \in Procs, c \in ServedChats : ClearStatsViews(p, 2, c)
    \/ \E p \in Procs : ClearStatsMarkers(p) \/ ClearStatsGroup(p) \/ ClearStatsUser(p)

SpecStats == InitStats /\ [][NextStats]_vars

\* C35: the view_count of every record is at least 0
C35_ViewCountNonNegative ==
    \A m \in media_library : m.view_count >= 0

\* two overlapping advances of user 1 both undid the one view of record 1: the
\* second decrement met the floor
C35_Witness ==
    /\ quickDecs[1] = 2
    /\ \A b \in deferred : "dec_view" \notin StmtsOf(b)
    /\ \E m \in media_library : m.id = 1 /\ m.view_count = 0

\* C36: the exhaustion reset of a call only removes markers, and every marker
\* it removes belongs to a record of the call's scope and category that
\* satisfies the call's filter; the markers of all other records stay
C36_ResetFrame ==
    [][
        \A p \in Procs :
            (pc[p] = "reset" /\ pc'[p] = "reselect") =>
                /\ served_history' \subseteq served_history
                /\ \A id \in served_history \ served_history' :
                      \E m \in media_library :
                          /\ m.id = id
                          /\ m.chat_id = sv[p].sourceChatId
                          /\ m.category_name = sv[p].category
                          /\ buildFilterWhereClause(sv[p].filters, m)
                /\ UNCHANGED <<media_library, last_served, user_history, group_history>>
    ]_vars

\* a call for category a with the media filter on photo has reset the marker of
\* record 1; the markers of record 2 (a video of category a) and record 3
\* (category b) are still there
C36_Witness ==
    \E p \in Procs :
        /\ pc[p] = "reselect"
        /\ sv[p].category = "a" /\ sv[p].filters.media_type = "photo"
        /\ 1 \notin served_history
        /\ served_history \cap {2, 3} # {}

\* C37: opening a filter text-input session never removes a session of mode
\* bd, bmv, cleanup or bmv_quick: its DELETE only removes filter-input rows
C37_FilterInputKeepsBatch ==
    [][
        \A p \in Procs :
            (pc[p] = "start_delete" /\ pc'[p] # "start_delete") =>
                \A r \in batch_sessions :
                    r.mode \in {"bd", "bmv", "cleanup", "bmv_quick"}
                        => r \in batch_sessions'
    ]_vars


\* ------------------------------------------------------------ daily intake
\* A media message in a bound topic, sent by a user without a batch session
\* (lines 741-756).  The records of these runs carry the file_unique_id column.
FileIds == {"f1", "f2"}

WithFile(row, f) == row @@ [file_unique_id |-> f]

\* line 743: the category the topic is bound to
IntakeTopic(p, u, c, f) ==
    /\ BeginBatchOp(p)
    /\ c < 0
    /\ SessionsOf(c, u, AllModes) = {}
    /\ LET locals == [BatchLocals("intake", u, c, "") EXCEPT !.said = {f}]
           bound == { t \in config_topics : t.chat_id = c /\ t.category_name # "output" }
       IN  IF bound = {}
           THEN FinishBatch(p, locals, "unbound", {}, 0)
           ELSE \E t \in bound :
                  Goto(p, [locals EXCEPT !.category = t.category_name], "intake_existing")
    /\ UNCHANGED <<tables, serveState>>

\* lines 745-752: SELECT id FROM media_library WHERE file_unique_id = ? AND
\* chat_id = ?; dup_notify is at its default 'false'
IntakeExisting(p) ==
    /\ pc[p] = "intake_existing"
    /\ IF \E m \in media_library :
              m.chat_id = sv[p].sourceChatId /\ {m.file_unique_id} = sv[p].said
       THEN FinishBatch(p, sv[p], "duplicate", {}, 0)
       ELSE Goto(p, sv[p], "intake_insert")
    /\ UNCHANGED <<tables, serveState, budget>>

\* lines 753-754: INSERT INTO media_library; the table has no unique index on
\* (chat_id, file_unique_id) (line 131), the id is the AUTOINCREMENT key
IntakeInsert(p) ==
    /\ pc[p] = "intake_insert"
    /\ LET ids == { m.id : m \in media_library }
           newId == (CHOOSE i \in ids \cup {0} : \A j \in ids : j <= i) + 1
       IN  media_library' = media_library \cup
              { WithFile(Row(newId, sv[p].sourceChatId, sv[p].category, "photo",
                             NoDuration, TODAY, 0), f) : f \in sv[p].said }
    /\ FinishBatch(p, sv[p], "recorded", {}, 0)
    /\ UNCHANGED <<config_topics, served_history, last_served, chat_settings,
                   user_filters, user_favorites, user_history, group_history, hist_seq,
                   batch_sessions, session_seq, serveState, budget>>

\* an empty library; group -1 has its topics bound
InitIntake ==
    InitState({}, {}, {}, {}, [user |-> 0, group |-> 0, user_owner |-> 1,
                                group_owner |-> -1],
                 [calls |-> MaxIntakes, fails |-> 0, admin |-> 0, appends |-> 0],
                 {}, NoFilters)

NextIntake ==
    \/ \E p \in Procs, u \in Users, f \in FileIds : IntakeTopic(p, u, -1, f)
    \/ \E p \in Procs : IntakeExisting(p) \/ IntakeInsert(p)

SpecIntake == InitIntake /\ [][NextIntake]_vars

\* C38: no two records of one chat carry the same file_unique_id
C38_NoDuplicateIntake ==
    \A a \in media_library : \A b \in media_library :
        (a.chat_id = b.chat_id /\ a.file_unique_id = b.file_unique_id) => a = b

\* C39: the count a /bd confirmation takes from batchDeleteMediaByIds and
\* reports is the number of media_library rows that call removed
C39_ReportedCountIsRemoved ==
    [][
        \A p \in Procs :
            (pc[p] = "confirm_apply" /\ pc'[p] = "confirm_cleanup" /\ sv[p].mode = "bd")
                => sv'[p].cnt = Cardinality(media_library) - Cardinality(media_library')
    ]_vars

\* C40: normalizeFilters applied to its own result changes nothing: for the
\* stored rows of the run, for the filter a call holds (isFilterActive, line
\* 1393, normalizes it once more) and for FILTER_DEFAULTS
C40_NormalizeIdempotent ==
    /\ normalizeFilters(FILTER_DEFAULTS) = FILTER_DEFAULTS
    /\ \A k \in DOMAIN user_filters :
          normalizeFilters(normalizeFilters(user_filters[k])) =
             normalizeFilters(user_filters[k])
    /\ \A p \in Procs : normalizeFilters(sv[p].filters) = sv[p].filters

\* a call holds a filter that normalization changed (the stored duration_max
\* " 45 " became "45") and that is not the default
C40_Witness ==
    /\ StoredField(user_filters[<<1, -1>>], "duration_max") = <<" ", "4", "5", " ">>
    /\ StoredField(user_filters[<<1, -1>>], "media_type") = "video"
    /\ \E p \in Procs :
          /\ pc[p] = "select"
          /\ sv[p].filters.duration_mode = "custom"
          /\ sv[p].filters.duration_max = <<"4", "5">>
          /\ sv[p].filters.media_type = "video"

====
